---- MODULE Spec2Model ----
(***************************************************************************)
(* RickBot 2.0 observability: the ObservabilityTracker                     *)
(* (core/observability.py) and the command interception hook tracked_call  *)
(* (core/bot.py), as a state machine whose steps are the code between two  *)
(* await points of the cooperative event loop; the metric snapshots of the *)
(* tracker; the startup of the bot (setup_hook, _setup_database) and its   *)
(* shutdown (RickBot.close, main of app.py); and the purge command of      *)
(* cogs/admin.py with the views of helpers/ui.py.                          *)
(***************************************************************************)
EXTENDS Integers, Sequences, FiniteSets, Bags, TLC

(***************************************************************************)
(* Bounds of the model.                                                    *)
(***************************************************************************)
\* number of interactions dispatched through tracked_call in one run
NumInteractions == 2
\* config.observability.error_reference_length (default 6)
error_reference_length == 1

Interactions == 1 .. NumInteractions

\* direct calls of log_command_execution made in one run
MaxCalls == 3
\* direct calls of log_error made in one run
MaxErrors == 1
\* calls of create_metric_snapshot made in one run
MaxSnapshots == 2
\* calls of reset_metrics made in one run
MaxResets == 1
\* completions of one command around one call of create_metric_snapshot
MaxBurst == 101
\* button presses made on one ConfirmationView
MaxPresses == 3
\* presses delivered to one PaginatedView
MaxCallbacks == 4
\* the largest number of embeds of a PaginatedView
MaxPages == 3
\* calls of RickBot.close made in one run
NumCloseCalls == 2

CloseCalls == 1 .. NumCloseCalls

(***************************************************************************)
(* Inputs.                                                                 *)
(***************************************************************************)
\* None of Python, for a name (interaction.command is None, no exception)
None == "None"
\* qualified names of the registered commands
CommandNames == {"a", "b"}
\* type(e).__name__ of the exception the dispatch of a command raises when
\* it fails; all derive from Exception (what `except Exception` of
\* tracked_call catches)
ErrorTypes(cmd) == IF cmd = "b" THEN {"KeyError"} ELSE {"ValueError"}
\* (time.time() - start_time) * 1000 of interaction i: each interaction
\* measures its own duration
Durations(i) == {10 * i}
\* int(datetime.now(timezone.utc).timestamp()) when a suffix is built
Timestamps == {1793577123}

\* max_attempts of generate_error_reference
max_attempts == 3

(***************************************************************************)
(* Python dicts: functions whose domain is the set of keys present.        *)
(***************************************************************************)
EmptyDict == [k \in {} |-> 0]

DictGet(d, k, default) == IF k \in DOMAIN d THEN d[k] ELSE default

\* variant of DictPut: the other keys are lost
DictPut_loses_others(d, k, v) == [x \in {k} |-> v]

\* d[k] = v
DictPut(d, k, v) == [x \in (DOMAIN d) \cup {k} |-> IF x = k THEN v ELSE d[x]]

RECURSIVE SumOver(_, _)
SumOver(d, keys) ==
    IF keys = {} THEN 0
    ELSE LET k == CHOOSE x \in keys : TRUE
         IN  d[k] + SumOver(d, keys \ {k})

\* sum(d.values())
SumValues(d) == SumOver(d, DOMAIN d)

(***************************************************************************)
(* Error references: strings, as sequences of characters.                  *)
(***************************************************************************)
\* string.ascii_uppercase + string.digits
UpperAlnum ==
    {"A", "B", "C", "D", "E", "F", "G", "H", "I", "J", "K", "L", "M",
     "N", "O", "P", "Q", "R", "S", "T", "U", "V", "W", "X", "Y", "Z",
     "0", "1", "2", "3", "4", "5", "6", "7", "8", "9"}

DigitChars == <<"0", "1", "2", "3", "4", "5", "6", "7", "8", "9">>

\* the characters random.choices draws from in the model: a part of chars
chars == {"A", "7"}

\* random.choices(chars, k=error_reference_length), joined
Codes == [1 .. error_reference_length -> chars]

\* str(n) for n >= 0
RECURSIVE IntToStr(_)
IntToStr(n) ==
    IF n < 10 THEN <<DigitChars[n + 1]>>
    ELSE Append(IntToStr(n \div 10), DigitChars[(n % 10) + 1])

\* s[-3:]
Last3(s) == IF Len(s) <= 3 THEN s ELSE SubSeq(s, Len(s) - 2, Len(s))

\* str(int(timestamp))[-3:]
timestamp_suffix(ts) == Last3(IntToStr(ts))

\* f"ERR-{code}"
ErrRef(code) == <<"E", "R", "R", "-">> \o code

\* variant of ErrRefSuffixed: the suffix is left out
ErrRefSuffixed_without_suffix(code, ts) == <<"E", "R", "R", "-">> \o code

\* f"ERR-{code}{timestamp_suffix}"
ErrRefSuffixed(code, ts) == <<"E", "R", "R", "-">> \o code \o timestamp_suffix(ts)

\* no reference: error_ref = None, an error_reference field left out
NoRef == << >>

(***************************************************************************)
(* State.                                                                  *)
(***************************************************************************)
VARIABLES
    config,            \* config.observability: the tracking flags
    command_logs,      \* db.command_logs: a bag of CommandLog rows
    error_logs,        \* db.error_logs: a bag of ErrorLog rows
    sent,              \* error messages delivered to users
    command_counts,    \* ObservabilityTracker._command_counts
    command_timings,   \* ObservabilityTracker._command_timings
    error_counts,      \* ObservabilityTracker._error_counts
    frame,             \* per interaction: the frame of its tracked_call
    metrics,           \* db.metrics: the MetricSnapshot rows, in insert order
    snapshot,          \* create_metric_snapshot: the snapshot being inserted
    created,           \* every snapshot built so far, in order
    calls,             \* every direct call of log_command_execution so far
    made,              \* how many calls of each tracker method were made
    main,              \* main of app.py: where it is
    closing,           \* per call of RickBot.close: where it is
    task,              \* metric_snapshot_task: the state of the loop
    client,            \* db.client: open or closed, and the calls of close
    discord,           \* the Discord connection: open or closed
    shutdown_log,      \* the steps of shutdown taken so far, in order
    setup,             \* setup_hook and _setup_database: where they are
    purge,             \* Admin.purge with its ConfirmationView and channel
    paginated          \* a PaginatedView: its page and its buttons

\* the state of the command interception hook
hookVars == <<config, command_logs, error_logs, sent,
              command_counts, command_timings, error_counts, frame>>

\* the state of the metric snapshots, with the record of the calls made
trackerVars == <<metrics, snapshot, created, calls, made>>

\* the state of startup and shutdown
closeVars == <<main, closing, task, client, discord, shutdown_log>>

\* the state of startup and of the views of helpers/ui.py
otherVars == <<setup, purge, paginated>>

vars == <<hookVars, trackerVars, closeVars, otherVars>>

\* ObservabilityConfig: the four tracking flags
AllConfigs ==
    [track_command_execution : BOOLEAN, track_command_timing : BOOLEAN,
     track_command_args : BOOLEAN, track_errors : BOOLEAN]

\* the configurations of the model: the default (all flags on), each flag
\* off alone, and all flags off
Configs ==
    {c \in AllConfigs :
        LET off == Cardinality({k \in DOMAIN c : ~c[k]})
        IN  off <= 1 \/ off = Cardinality(DOMAIN c)}

\* interaction.user.id
UserId(i) == 100 + i

\* interaction.namespace.__dict__ of an invocation of a command
Namespace(cmd) ==
    IF cmd = "a" THEN [amount |-> 5, _state |-> 0] ELSE [target |-> 7]

\* name.startswith("_")
StartsWithUnderscore(name) == name \in {"_state"}

\* {name: value for name, value in namespace.__dict__.items()
\*  if not name.startswith("_")}
ExtractArguments(ns) ==
    [name \in {n \in DOMAIN ns : ~StartsWithUnderscore(n)} |-> ns[name]]

\* cmd_type of log_command_execution: "b" is a user context menu
CommandType(cmd) == IF cmd = "b" THEN "context_menu_user" ELSE "slash"

(***************************************************************************)
(* The stores.  A row carries the fields the code sets; `interaction` is   *)
(* the interaction the row was written for (0: a row of an earlier run).   *)
(***************************************************************************)
\* variant of CommandLogRow: the arguments are stored whatever the flag
CommandLogRow_with_arguments(i, f) ==
    [command_name |-> f.command,
     command_type |-> CommandType(f.command),
     execution_time_ms |-> f.execution_time_ms,
     success |-> f.success,
     user_id |-> UserId(i),
     arguments |-> f.arguments,
     error_reference |-> f.error_ref,
     interaction |-> i]

\* variant of CommandLogRow: error_reference is not passed on
CommandLogRow_without_reference(i, f) ==
    [command_name |-> f.command,
     command_type |-> CommandType(f.command),
     execution_time_ms |-> f.execution_time_ms,
     success |-> f.success,
     user_id |-> UserId(i),
     arguments |-> IF config.track_command_args THEN f.arguments ELSE {},
     error_reference |-> NoRef,
     interaction |-> i]

\* CommandLog(...) as built by log_command_execution; an Optional field is
\* a set: {} for None, {v} for a value; error_reference None is NoRef
CommandLogRow(i, f) ==
    [command_name |-> f.command,
     command_type |-> CommandType(f.command),
     execution_time_ms |-> f.execution_time_ms,
     success |-> f.success,
     user_id |-> UserId(i),
     arguments |-> IF config.track_command_args THEN f.arguments ELSE {},
     error_reference |-> f.error_ref,
     interaction |-> i]

\* ErrorLog(...) as built by log_error
ErrorLogRow(i, f) ==
    [error_reference |-> f.log_error_ref,
     error_type |-> f.error,
     command_name |-> f.command,
     user_id |-> UserId(i),
     interaction |-> i]

\* a row left in error_logs by an earlier process
PriorRow(ref) ==
    [error_reference |-> ref, error_type |-> "ValueError",
     command_name |-> None, user_id |-> 0, interaction |-> 0]

\* the error_reference values present in a bag of ErrorLog rows
Refs(rows) == {r.error_reference : r \in BagToSet(rows)}

\* find_one({"error_reference": error_ref}) is not None
Existing(rows, ref) == ref \in Refs(rows)

\* variant of UniqueIndexAllows: the index is not unique
UniqueIndexAllows_not_unique(rows, ref) == TRUE

\* create_index([("error_reference", 1)], unique=True): an insert of a row
\* whose error_reference is present raises DuplicateKeyError
UniqueIndexAllows(rows, ref) == ~Existing(rows, ref)

\* collection.insert_one(document)
InsertOne(rows, row) == rows (+) SetToBag({row})

\* the number of rows of a bag written for interaction i
RowsFor(rows, i) ==
    BagCardinality([r \in {x \in BagToSet(rows) : x.interaction = i}
                        |-> CopiesIn(r, rows)])

\* what error_logs may hold when the process starts
PriorStores ==
    LET first == [k \in 1 .. error_reference_length |-> "A"]
        plain == {ErrRef(c) : c \in Codes}
        suffixed == {ErrRefSuffixed(first, ts) : ts \in Timestamps}
    IN  {{}, plain \cup suffixed}

(***************************************************************************)
(* The frame of one tracked_call.  pc names the await the call is          *)
(* suspended at; the fields from `probes` on record what happened (they    *)
(* are read by the properties only).  Locals are dropped when their        *)
(* function returns, the record of a generate_error_reference call when   *)
(* the except block of tracked_call is left.                               *)
(***************************************************************************)
IdleFrame ==
    [pc |-> "idle",
     command |-> None,            \* interaction.command.qualified_name
     success |-> TRUE,
     error_ref |-> NoRef,         \* error_ref of tracked_call
     error |-> None,              \* type(e).__name__
     pending |-> FALSE,           \* an exception is propagating
     attempt |-> 0,               \* generate_error_reference: attempt
     candidate |-> NoRef,         \* generate_error_reference: last error_ref
     log_error_ref |-> NoRef,     \* log_error: error_ref
     execution_time_ms |-> 0,
     arguments |-> {},
     probes |-> << >>,            \* results of the find_one calls
     store_at_call |-> {},        \* Refs(error_logs) when generate_... began
     generated |-> NoRef,         \* what generate_error_reference returned
     log_error_calls |-> 0,       \* completed calls of log_error
     error_insert |-> "none",     \* error_logs.insert_one: none, ok, fail
     duplicate_key |-> FALSE,     \* its failure was a DuplicateKeyError
     send |-> "none",             \* the send: none, ok, fail
     log_command_calls |-> 0,     \* completed calls of log_command_execution
     command_insert |-> "none"]   \* command_logs.insert_one: none, ok, fail

(***************************************************************************)
(* Where the code catches.  Each operator says whether the failure of the  *)
(* awaited call escapes the function that awaits it.                       *)
(***************************************************************************)
\* variant of GenerateRaises: the probe is not guarded
GenerateRaises_unguarded == TRUE

\* generate_error_reference: try find_one ... except Exception: return
GenerateRaises == FALSE

\* variant of LogErrorRaises: the insert is not guarded
LogErrorRaises_unguarded == TRUE

\* log_error: try insert_one ... except Exception: logger.error
LogErrorRaises == FALSE

\* variant of ShowErrorRaises: the send is not guarded
ShowErrorRaises_unguarded == TRUE

\* _show_error_to_user: try send ... except Exception: logger.error
ShowErrorRaises == FALSE

\* variant of LogCommandRaises: the insert is not guarded
LogCommandRaises_unguarded == TRUE

\* log_command_execution: try insert_one ... except Exception: logger.error
LogCommandRaises == FALSE

(***************************************************************************)
(* The in-memory counters.                                                 *)
(***************************************************************************)
\* variant of CountCommand: the count is set, not incremented
CountCommand_overwrite(counts, name) == DictPut(counts, name, 1)

\* self._command_counts[name] = self._command_counts.get(name, 0) + 1
CountCommand(counts, name) == DictPut(counts, name, DictGet(counts, name, 0) + 1)

\* variant of RecordTiming: only the first duration of a command is kept
RecordTiming_first_only(timings, name, ms) ==
    IF config.track_command_timing /\ name \notin DOMAIN timings
    THEN DictPut(timings, name, <<ms>>)
    ELSE timings

\* if track_command_timing: self._command_timings[name].append(ms), the
\* list created when the name is new
RecordTiming(timings, name, ms) ==
    IF config.track_command_timing
    THEN DictPut(timings, name, Append(DictGet(timings, name, << >>), ms))
    ELSE timings

\* variant of CountError: the count is set, not incremented
CountError_overwrite(counts, type) == DictPut(counts, type, 1)

\* self._error_counts[type] = self._error_counts.get(type, 0) + 1
CountError(counts, type) == DictPut(counts, type, DictGet(counts, type, 0) + 1)

(***************************************************************************)
(* tracked_call, from one await to the next.                               *)
(***************************************************************************)
\* tracked_call ends: it returns, or the pending exception leaves it
Leave(f) ==
    [f EXCEPT !.pc = IF f.pending THEN "raised" ELSE "returned",
              !.error_ref = NoRef, !.pending = FALSE,
              !.execution_time_ms = 0, !.arguments = {},
              !.candidate = NoRef, !.probes = << >>, !.store_at_call = {},
              !.generated = NoRef]

\* log_command_execution up to its insert: the early return when
\* track_command_execution is off, else the row is built and inserted
LogCommandExecutionEnter(f) ==
    IF ~config.track_command_execution
    THEN Leave([f EXCEPT !.log_command_calls = @ + 1])
    ELSE [f EXCEPT !.pc = "insert_command"]

\* variant of FinallyBlock: only failed invocations are logged
FinallyBlock_only_failures(f, ms) ==
    LET g == [f EXCEPT !.execution_time_ms = ms]
    IN  IF g.command = None \/ g.success
        THEN Leave(g)
        ELSE LogCommandExecutionEnter(
                 [g EXCEPT !.arguments =
                     IF config.track_command_args
                     THEN {ExtractArguments(Namespace(g.command))}
                     ELSE {}])

\* variant of FinallyBlock: log_command_execution is called whether a
\* command was matched or not
FinallyBlock_any_command(f, ms) ==
    LET g == [f EXCEPT !.execution_time_ms = ms]
    IN  LogCommandExecutionEnter(
            [g EXCEPT !.arguments =
                IF config.track_command_args
                THEN {ExtractArguments(Namespace(g.command))}
                ELSE {}])

\* the finally block of tracked_call up to its await
FinallyBlock(f, ms) ==
    LET g == [f EXCEPT !.execution_time_ms = ms]
    IN  IF g.command = None
        THEN Leave(g)
        ELSE LogCommandExecutionEnter(
                 [g EXCEPT !.arguments =
                     IF config.track_command_args
                     THEN {ExtractArguments(Namespace(g.command))}
                     ELSE {}])

\* the record of the generate_error_reference call is dropped
Forget(f) ==
    [f EXCEPT !.candidate = NoRef, !.probes = << >>, !.store_at_call = {},
              !.generated = NoRef]

\* an exception leaves log_error: the except block of tracked_call is
\* left before error_ref is assigned, and the finally block runs
ExceptBlockRaises(f, ms) ==
    FinallyBlock(Forget([f EXCEPT !.pending = TRUE, !.attempt = 0,
                                  !.log_error_ref = NoRef]), ms)

\* variant of LogErrorReturns: the finally block runs before the message
\* is sent
LogErrorReturns_skips_send(f, ref) ==
    FinallyBlock(Forget([f EXCEPT !.error_ref = ref,
                                  !.log_error_calls = @ + 1,
                                  !.log_error_ref = NoRef]), 0)

\* log_error returns ref: tracked_call assigns error_ref and awaits the
\* send of _show_error_to_user
LogErrorReturns(f, ref) ==
    [f EXCEPT !.pc = "send_message", !.error_ref = ref,
              !.log_error_calls = @ + 1, !.log_error_ref = NoRef]

\* generate_error_reference returns ref to log_error, which returns it at
\* once when track_errors is off, and else builds the row and inserts it
GenerateReturns(f, ref) ==
    LET g == [f EXCEPT !.attempt = 0, !.generated = ref]
    IN  IF ~config.track_errors
        THEN LogErrorReturns(g, ref)
        ELSE [g EXCEPT !.pc = "insert_error", !.log_error_ref = ref]

(***************************************************************************)
(* Where the parts of the state start.                                     *)
(***************************************************************************)
\* no call of a tracker method was made
NoCalls ==
    [log_command_execution |-> 0, log_error |-> 0,
     create_metric_snapshot |-> 0, reset_metrics |-> 0, truncations |-> 0]

\* db.metrics is empty, no snapshot is being built, no call was made
TrackerIdle ==
    /\ metrics = << >>
    /\ snapshot = {}
    /\ created = << >>
    /\ calls = EmptyDict
    /\ made = NoCalls

\* close was not called
NotClosing == [c \in CloseCalls |-> [pc |-> "idle", trigger |-> None]]

\* the bot runs: main awaits bot.start, the store and the Discord
\* connection are open, nothing of shutdown has happened
Running ==
    /\ main = "start"
    /\ closing = NotClosing
    /\ client = [closed |-> FALSE, close_calls |-> 0]
    /\ discord = "open"
    /\ shutdown_log = << >>

\* setup_hook is not under way, no purge command and no PaginatedView exist
Elsewhere ==
    /\ setup = None
    /\ purge = None
    /\ paginated = None

(***************************************************************************)
(* Init: a fresh tracker (ObservabilityTracker.__init__), empty            *)
(* command_logs, and an error_logs collection that may hold rows of        *)
(* earlier runs.                                                           *)
(***************************************************************************)
Init ==
    /\ config \in Configs
    /\ command_logs = EmptyBag
    /\ \E prior \in PriorStores : error_logs = SetToBag({PriorRow(r) : r \in prior})
    /\ sent = {}
    /\ command_counts = EmptyDict
    /\ command_timings = EmptyDict
    /\ error_counts = EmptyDict
    /\ frame = [i \in Interactions |-> IdleFrame]
    /\ TrackerIdle
    /\ Running
    /\ task = "waiting"
    /\ Elsewhere

(***************************************************************************)
(* Actions.                                                                *)
(***************************************************************************)
\* the framework calls tree._call(interaction): tracked_call starts and
\* awaits original_call.  Interactions are numbered in arrival order.
Invoke(i, cmd) ==
    /\ frame[i].pc = "idle"
    /\ \A j \in Interactions : j < i => frame[j].pc # "idle"
    /\ frame' = [frame EXCEPT ![i] =
                    [IdleFrame EXCEPT !.pc = "original_call", !.command = cmd]]
    /\ UNCHANGED <<config, command_logs, error_logs, sent,
                   command_counts, command_timings, error_counts>>
    /\ UNCHANGED <<trackerVars, closeVars, otherVars>>

\* original_call returns: the finally block runs
OriginalCallReturns(i, ms) ==
    /\ frame[i].pc = "original_call"
    /\ frame' = [frame EXCEPT ![i] = FinallyBlock(frame[i], ms)]
    /\ UNCHANGED <<config, command_logs, error_logs, sent,
                   command_counts, command_timings, error_counts>>
    /\ UNCHANGED <<trackerVars, closeVars, otherVars>>

\* original_call raises e: success = False, log_error is called, which
\* calls generate_error_reference, which draws a code and probes the store
OriginalCallRaises(i, code) ==
    /\ frame[i].pc = "original_call"
    /\ \E e \in ErrorTypes(frame[i].command) :
           frame' = [frame EXCEPT ![i] =
                        [@ EXCEPT !.pc = "find_one", !.success = FALSE,
                                  !.error = e,
                                  !.attempt = 0, !.candidate = ErrRef(code),
                                  !.store_at_call = Refs(error_logs)]]
    /\ UNCHANGED <<config, command_logs, error_logs, sent,
                   command_counts, command_timings, error_counts>>
    /\ UNCHANGED <<trackerVars, closeVars, otherVars>>

\* find_one returns None: the candidate is returned
FindOneAbsent(i) ==
    /\ frame[i].pc = "find_one"
    /\ ~Existing(error_logs, frame[i].candidate)
    /\ frame' = [frame EXCEPT ![i] =
                    GenerateReturns([@ EXCEPT !.probes = Append(@, "absent")],
                                    frame[i].candidate)]
    /\ UNCHANGED <<config, command_logs, error_logs, sent,
                   command_counts, command_timings, error_counts>>
    /\ UNCHANGED <<trackerVars, closeVars, otherVars>>

\* find_one returns a row: the next attempt draws a new code and probes
\* again; after the last attempt a code with the timestamp suffix is returned
FindOneExisting(i, code, ts) ==
    /\ frame[i].pc = "find_one"
    /\ Existing(error_logs, frame[i].candidate)
    /\ LET f == [frame[i] EXCEPT !.probes = Append(@, "existing")]
       IN  frame' = [frame EXCEPT ![i] =
                        IF f.attempt + 1 < max_attempts
                        THEN [f EXCEPT !.attempt = @ + 1,
                                       !.candidate = ErrRef(code)]
                        ELSE GenerateReturns(f, ErrRefSuffixed(code, ts))]
    /\ UNCHANGED <<config, command_logs, error_logs, sent,
                   command_counts, command_timings, error_counts>>
    /\ UNCHANGED <<trackerVars, closeVars, otherVars>>

\* find_one raises: the candidate is returned anyway
FindOneFails(i, ms) ==
    /\ frame[i].pc = "find_one"
    /\ LET f == [frame[i] EXCEPT !.probes = Append(@, "fail")]
       IN  frame' = [frame EXCEPT ![i] =
                        IF GenerateRaises
                        THEN ExceptBlockRaises(f, ms)
                        ELSE GenerateReturns(f, f.candidate)]
    /\ UNCHANGED <<config, command_logs, error_logs, sent,
                   command_counts, command_timings, error_counts>>
    /\ UNCHANGED <<trackerVars, closeVars, otherVars>>

\* error_logs.insert_one succeeds: the row is stored, the error type is
\* counted, log_error returns
InsertErrorOk(i) ==
    /\ frame[i].pc = "insert_error"
    /\ UniqueIndexAllows(error_logs, frame[i].log_error_ref)
    /\ error_logs' = InsertOne(error_logs, ErrorLogRow(i, frame[i]))
    /\ error_counts' = CountError(error_counts, frame[i].error)
    /\ frame' = [frame EXCEPT ![i] =
                    LogErrorReturns([@ EXCEPT !.error_insert = "ok"],
                                    frame[i].log_error_ref)]
    /\ UNCHANGED <<config, command_logs, sent, command_counts, command_timings>>
    /\ UNCHANGED <<trackerVars, closeVars, otherVars>>

\* error_logs.insert_one raises (the store is down, or DuplicateKeyError):
\* logged; the error type is counted, log_error returns
InsertErrorFails(i, ms) ==
    /\ frame[i].pc = "insert_error"
    /\ LET f == [frame[i] EXCEPT
                    !.error_insert = "fail",
                    !.duplicate_key =
                        ~UniqueIndexAllows(error_logs, frame[i].log_error_ref)]
       IN  IF LogErrorRaises
           THEN /\ frame' = [frame EXCEPT ![i] = ExceptBlockRaises(f, ms)]
                /\ UNCHANGED error_counts
           ELSE /\ frame' = [frame EXCEPT ![i] =
                                LogErrorReturns(f, f.log_error_ref)]
                /\ error_counts' = CountError(error_counts, f.error)
    /\ UNCHANGED <<config, command_logs, error_logs, sent,
                   command_counts, command_timings>>
    /\ UNCHANGED <<trackerVars, closeVars, otherVars>>

\* _show_error_to_user: response.send_message (is_done() false) or
\* followup.send (is_done() true) succeeds; then the finally block runs
SendOk(i, done, ms) ==
    /\ frame[i].pc = "send_message"
    /\ sent' = sent \cup {[interaction |-> i, error_ref |-> frame[i].error_ref]}
    /\ frame' = [frame EXCEPT ![i] =
                    FinallyBlock(Forget([@ EXCEPT !.send = "ok"]), ms)]
    /\ UNCHANGED <<config, command_logs, error_logs,
                   command_counts, command_timings, error_counts>>
    /\ UNCHANGED <<trackerVars, closeVars, otherVars>>

\* the send raises: logged only; then the finally block runs
SendFails(i, done, ms) ==
    /\ frame[i].pc = "send_message"
    /\ frame' = [frame EXCEPT ![i] =
                    FinallyBlock(Forget([@ EXCEPT !.send = "fail",
                                                  !.pending = ShowErrorRaises]),
                                 ms)]
    /\ UNCHANGED <<config, command_logs, error_logs, sent,
                   command_counts, command_timings, error_counts>>
    /\ UNCHANGED <<trackerVars, closeVars, otherVars>>

\* command_logs.insert_one succeeds: the row is stored, the counters are
\* updated, log_command_execution and tracked_call return
InsertCommandOk(i) ==
    /\ frame[i].pc = "insert_command"
    /\ command_logs' = InsertOne(command_logs, CommandLogRow(i, frame[i]))
    /\ command_counts' = CountCommand(command_counts, frame[i].command)
    /\ command_timings' = RecordTiming(command_timings, frame[i].command,
                                       frame[i].execution_time_ms)
    /\ frame' = [frame EXCEPT ![i] =
                    Leave([@ EXCEPT !.command_insert = "ok",
                                    !.log_command_calls = @ + 1])]
    /\ UNCHANGED <<config, error_logs, sent, error_counts>>
    /\ UNCHANGED <<trackerVars, closeVars, otherVars>>

\* command_logs.insert_one raises: logged; the counters are updated
InsertCommandFails(i) ==
    /\ frame[i].pc = "insert_command"
    /\ LET f == [frame[i] EXCEPT !.command_insert = "fail"]
       IN  IF LogCommandRaises
           THEN /\ frame' = [frame EXCEPT ![i] =
                                Leave([f EXCEPT !.pending = TRUE])]
                /\ UNCHANGED <<command_counts, command_timings>>
           ELSE /\ frame' = [frame EXCEPT ![i] =
                                Leave([f EXCEPT !.log_command_calls = @ + 1])]
                /\ command_counts' = CountCommand(command_counts, f.command)
                /\ command_timings' = RecordTiming(command_timings, f.command,
                                                   f.execution_time_ms)
    /\ UNCHANGED <<config, command_logs, error_logs, sent, error_counts>>
    /\ UNCHANGED <<trackerVars, closeVars, otherVars>>

Next ==
    \/ \E i \in Interactions, cmd \in CommandNames \cup {None} : Invoke(i, cmd)
    \/ \E i \in Interactions : \E ms \in Durations(i) : OriginalCallReturns(i, ms)
    \/ \E i \in Interactions, code \in Codes : OriginalCallRaises(i, code)
    \/ \E i \in Interactions : FindOneAbsent(i)
    \/ \E i \in Interactions, code \in Codes, ts \in Timestamps :
           FindOneExisting(i, code, ts)
    \/ \E i \in Interactions : \E ms \in Durations(i) : FindOneFails(i, ms)
    \/ \E i \in Interactions : InsertErrorOk(i)
    \/ \E i \in Interactions : \E ms \in Durations(i) : InsertErrorFails(i, ms)
    \/ \E i \in Interactions, done \in BOOLEAN : \E ms \in Durations(i) :
           SendOk(i, done, ms)
    \/ \E i \in Interactions, done \in BOOLEAN : \E ms \in Durations(i) :
           SendFails(i, done, ms)
    \/ \E i \in Interactions : InsertCommandOk(i)
    \/ \E i \in Interactions : InsertCommandFails(i)

Spec == Init /\ [][Next]_vars

(***************************************************************************)
(* The metric snapshot built from the counters.                            *)
(***************************************************************************)
RECURSIVE SeqSum(_)
SeqSum(q) == IF q = << >> THEN 0 ELSE Head(q) + SeqSum(Tail(q))

\* variant of MetricSnapshot: the average is the last duration
MetricSnapshot_last_duration ==
    [total_commands_executed |-> SumValues(command_counts),
     commands_by_name |-> command_counts,
     average_command_time_ms |->
         [cmd \in {c \in DOMAIN command_timings : command_timings[c] # << >>}
             |-> [sum |-> command_timings[cmd][Len(command_timings[cmd])],
                  len |-> 1]],
     total_errors |-> SumValues(error_counts),
     errors_by_type |-> error_counts]

\* MetricSnapshot(...) of create_metric_snapshot; an average sum/len is
\* kept as the pair of its sum and its length
MetricSnapshot ==
    [total_commands_executed |-> SumValues(command_counts),
     commands_by_name |-> command_counts,
     average_command_time_ms |->
         [cmd \in {c \in DOMAIN command_timings : command_timings[c] # << >>}
             |-> [sum |-> SeqSum(command_timings[cmd]),
                  len |-> Len(command_timings[cmd])]],
     total_errors |-> SumValues(error_counts),
     errors_by_type |-> error_counts]

(***************************************************************************)
(* The tracker's methods called directly, one after the other: the calls   *)
(* of log_command_execution and log_error are taken as one step each (the  *)
(* steps between their awaits are those of tracked_call above), while      *)
(* create_metric_snapshot is suspended at its insert.                      *)
(***************************************************************************)
\* the number of recent timings cleanup_memory keeps per command
KeepLast == 100

\* variant of LastN: the first n entries are kept, q[:n]
LastN_keeps_first(q, n) == IF Len(q) <= n THEN q ELSE SubSeq(q, 1, n)

\* q[-n:]
LastN(q, n) == IF Len(q) <= n THEN q ELSE SubSeq(q, Len(q) - n + 1, Len(q))

\* variant of cleanup_memory: no list is truncated
cleanup_memory_no_truncation(timings) == timings

\* cleanup_memory: if len(timings) > 100: timings[cmd] = timings[-100:]
cleanup_memory(timings) ==
    [cmd \in DOMAIN timings |->
        IF Len(timings[cmd]) > KeepLast
        THEN LastN(timings[cmd], KeepLast)
        ELSE timings[cmd]]

\* variant of Clear: the dict is left as it is
Clear_keeps(d) == d

\* d.clear()
Clear(d) == EmptyDict

\* the calls of log_command_execution made before the run that is checked:
\* none, or as many for command "a" as cleanup_memory keeps, the k-th with
\* a duration of k ms
WarmUpCalls == {0, KeepLast}

\* the arguments a caller passes: for command "a" its namespace, for
\* command "b" None
CallerArguments(name) ==
    IF name = "a" THEN {{ExtractArguments(Namespace(name))}} ELSE {{}}

\* the code random.choices draws in a direct call of log_error
DirectCodes == {[k \in 1 .. error_reference_length |-> "A"]}

\* the frame of a direct call of log_command_execution
DirectCall(name, ms, args) ==
    [IdleFrame EXCEPT !.command = name, !.execution_time_ms = ms,
                      !.arguments = args]

\* _command_counts after n calls for command "a"
CountsAfter(n) == IF n = 0 THEN EmptyDict ELSE [cmd \in {"a"} |-> n]

\* _command_timings after n calls for command "a"
TimingsAfter(n) ==
    IF n = 0 \/ ~config.track_command_timing THEN EmptyDict
    ELSE [cmd \in {"a"} |-> [k \in 1 .. n |-> k]]

\* command_logs after n calls for command "a", no arguments passed
RowsAfter(n) ==
    SetToBag({CommandLogRow(0, DirectCall("a", k, {})) : k \in 1 .. n})

\* a tracker that has served n calls of log_command_execution
TrackerInit ==
    /\ config \in Configs
    /\ \E n \in WarmUpCalls :
           /\ command_counts =
                  IF config.track_command_execution THEN CountsAfter(n)
                  ELSE EmptyDict
           /\ command_timings =
                  IF config.track_command_execution THEN TimingsAfter(n)
                  ELSE EmptyDict
           /\ command_logs =
                  IF config.track_command_execution THEN RowsAfter(n)
                  ELSE EmptyBag
           /\ calls = IF n = 0 THEN EmptyDict
                      ELSE [cmd \in {"a"} |-> [k \in 1 .. n |-> k]]
    /\ error_counts = EmptyDict
    /\ error_logs = EmptyBag
    /\ sent = {}
    /\ frame = [i \in Interactions |-> IdleFrame]
    /\ metrics = << >>
    /\ snapshot = {}
    /\ created = << >>
    /\ made = NoCalls
    /\ Running
    /\ task = "waiting"
    /\ Elsewhere

\* log_command_execution(name, ..., execution_time_ms, arguments=args), the
\* store available: the early return, else the insert and the counters;
\* at most bound calls are made
LogCommandExecutionUpTo(bound, name, args) ==
    /\ made.log_command_execution < bound
    /\ \E ms \in Durations(made.log_command_execution + 1) :
           LET f == DirectCall(name, ms, args)
           IN  /\ IF ~config.track_command_execution
                  THEN UNCHANGED <<command_logs, command_counts, command_timings>>
                  ELSE /\ command_logs' =
                              InsertOne(command_logs, CommandLogRow(0, f))
                       /\ command_counts' = CountCommand(command_counts, name)
                       /\ command_timings' =
                              RecordTiming(command_timings, name, ms)
               /\ calls' = DictPut(calls, name,
                                   Append(DictGet(calls, name, << >>), ms))
    /\ made' = [made EXCEPT !.log_command_execution = @ + 1]
    /\ UNCHANGED <<config, error_logs, sent, error_counts, frame,
                   metrics, snapshot, created, closeVars, otherVars>>

\* a call of log_command_execution
LogCommandExecution(name, args) == LogCommandExecutionUpTo(MaxCalls, name, args)

\* log_error(error, command_name=name), the store available, on the path
\* where the first probe reports the candidate absent: the early return,
\* else the insert and the counter
LogError(name, code) ==
    /\ made.log_error < MaxErrors
    /\ ~Existing(error_logs, ErrRef(code))
    /\ \E t \in ErrorTypes(name) :
           LET f == [IdleFrame EXCEPT !.command = name, !.error = t,
                                      !.log_error_ref = ErrRef(code)]
           IN  IF ~config.track_errors
               THEN UNCHANGED <<error_logs, error_counts>>
               ELSE /\ error_logs' = InsertOne(error_logs, ErrorLogRow(0, f))
                    /\ error_counts' = CountError(error_counts, t)
    /\ made' = [made EXCEPT !.log_error = @ + 1]
    /\ UNCHANGED <<config, command_logs, sent, command_counts, command_timings,
                   frame, metrics, snapshot, created, calls, closeVars, otherVars>>

\* create_metric_snapshot up to its await: the averages and the snapshot
\* are computed from the maps, and the insert is begun
CreateMetricSnapshot ==
    /\ made.create_metric_snapshot < MaxSnapshots
    /\ snapshot = {}
    /\ snapshot' = {MetricSnapshot}
    /\ created' = Append(created, [snapshot |-> MetricSnapshot,
                                   calls |-> calls,
                                   resets |-> made.reset_metrics,
                                   truncations |-> made.truncations])
    /\ made' = [made EXCEPT !.create_metric_snapshot = @ + 1]
    /\ UNCHANGED <<hookVars, metrics, calls, closeVars, otherVars>>

\* the number of lists cleanup_memory would shorten
Truncated(timings) ==
    IF cleanup_memory(timings) = timings THEN 0 ELSE 1

\* variant of MetricsInsertOk: the counters are flushed with the snapshot
MetricsInsertOk_flushes ==
    /\ snapshot # {}
    /\ metrics' = metrics \o <<CHOOSE m \in snapshot : TRUE>>
    /\ command_timings' = cleanup_memory(command_timings)
    /\ command_counts' = EmptyDict
    /\ error_counts' = EmptyDict
    /\ made' = [made EXCEPT !.truncations = @ + Truncated(command_timings)]
    /\ snapshot' = {}
    /\ UNCHANGED <<config, command_logs, error_logs, sent,
                   frame, created, calls, closeVars, otherVars>>

\* metrics.insert_one succeeds: cleanup_memory is called
MetricsInsertOk ==
    /\ snapshot # {}
    /\ metrics' = metrics \o <<CHOOSE m \in snapshot : TRUE>>
    /\ command_timings' = cleanup_memory(command_timings)
    /\ made' = [made EXCEPT !.truncations = @ + Truncated(command_timings)]
    /\ snapshot' = {}
    /\ UNCHANGED <<config, command_logs, error_logs, sent, command_counts,
                   error_counts, frame, created, calls, closeVars, otherVars>>

\* variant of MetricsInsertFails: cleanup_memory is called all the same
MetricsInsertFails_cleans ==
    /\ snapshot # {}
    /\ snapshot' = {}
    /\ command_timings' = cleanup_memory(command_timings)
    /\ made' = [made EXCEPT !.truncations = @ + Truncated(command_timings)]
    /\ UNCHANGED <<config, command_logs, error_logs, sent, command_counts,
                   error_counts, frame, metrics, created, calls, closeVars,
                   otherVars>>

\* metrics.insert_one raises: logged, the maps are left alone
MetricsInsertFails ==
    /\ snapshot # {}
    /\ snapshot' = {}
    /\ UNCHANGED <<hookVars, metrics, created, calls, made, closeVars, otherVars>>

\* cleanup_memory()
CleanupMemory ==
    /\ command_timings' = cleanup_memory(command_timings)
    /\ made' = [made EXCEPT !.truncations = @ + Truncated(command_timings)]
    /\ UNCHANGED <<config, command_logs, error_logs, sent, command_counts,
                   error_counts, frame, metrics, snapshot, created, calls,
                   closeVars, otherVars>>

\* reset_metrics()
ResetMetrics ==
    /\ made.reset_metrics < MaxResets
    /\ command_counts' = Clear(command_counts)
    /\ command_timings' = Clear(command_timings)
    /\ error_counts' = Clear(error_counts)
    /\ made' = [made EXCEPT !.reset_metrics = @ + 1]
    /\ UNCHANGED <<config, command_logs, error_logs, sent, frame,
                   metrics, snapshot, created, calls, closeVars, otherVars>>

TrackerNext ==
    \/ \E name \in CommandNames : \E args \in CallerArguments(name) :
           LogCommandExecution(name, args)
    \/ \E name \in CommandNames, code \in DirectCodes : LogError(name, code)
    \/ CreateMetricSnapshot
    \/ MetricsInsertOk
    \/ MetricsInsertFails
    \/ CleanupMemory
    \/ ResetMetrics

SpecTracker == TrackerInit /\ [][TrackerNext]_vars

(***************************************************************************)
(* A burst: one command completes many times around one call of            *)
(* create_metric_snapshot, before the snapshot is built and while its      *)
(* insert is awaited.                                                      *)
(***************************************************************************)
\* a fresh tracker, every tracking flag on
BurstInit ==
    /\ config \in {c \in Configs : \A k \in DOMAIN c : c[k]}
    /\ command_logs = EmptyBag
    /\ error_logs = EmptyBag
    /\ sent = {}
    /\ command_counts = EmptyDict
    /\ command_timings = EmptyDict
    /\ error_counts = EmptyDict
    /\ frame = [i \in Interactions |-> IdleFrame]
    /\ TrackerIdle
    /\ Running
    /\ task = "waiting"
    /\ Elsewhere

\* command "a" completes, as long as the snapshot is not stored
BurstCall ==
    /\ metrics = << >>
    /\ \E args \in CallerArguments("a") :
           LogCommandExecutionUpTo(MaxBurst, "a", args)

\* the one call of create_metric_snapshot of the burst
BurstSnapshot ==
    /\ made.create_metric_snapshot = 0
    /\ CreateMetricSnapshot

BurstNext ==
    \/ BurstCall
    \/ BurstSnapshot
    \/ MetricsInsertOk
    \/ MetricsInsertFails
    \/ CleanupMemory

SpecBurst == BurstInit /\ [][BurstNext]_vars

(***************************************************************************)
(* Shutdown: main of app.py awaits bot.start; a signal schedules           *)
(* bot.close() as a task, and the finally block of main calls it when the  *)
(* bot is not closed.  RickBot.close from one await to the next, with the  *)
(* tracker and the store set up (self.observer and self.db are set).       *)
(***************************************************************************)
\* metric_snapshot_task.is_running()
IsRunning == task \in {"waiting", "inserting"}

\* bot.is_closed(): Client.close of the host library was called
IsClosed == discord # "open"

\* the steps a call of close (0: the periodic task) adds to the record
Logged(c, steps) ==
    shutdown_log \o [k \in 1 .. Len(steps) |-> [call |-> c, step |-> steps[k]]]

\* variant of FinalSnapshotRaises: the failure leaves close
FinalSnapshotRaises_unguarded == TRUE

\* close: try create_metric_snapshot ... except Exception: logger.error
FinalSnapshotRaises == FALSE

\* the record of a snapshot that is built
Built ==
    [snapshot |-> MetricSnapshot, calls |-> calls,
     resets |-> made.reset_metrics, truncations |-> made.truncations]

\* values of config.observability.aggregate_metrics_interval, in seconds
Intervals == {-1, 0, 300}

\* variant of TaskAfterSetup: the task is started whatever the interval
TaskAfterSetup_always_started(interval) == "waiting"

\* setup_hook: metric_snapshot_task.start() is called only when
\* aggregate_metrics_interval > 0
TaskAfterSetup(interval) == IF interval > 0 THEN "waiting" ELSE "not_started"

\* the bot runs, with the periodic task started (aggregate_metrics_interval
\* > 0) or not
CloseInit ==
    /\ \E n \in Intervals :
           /\ config \in {c @@ [aggregate_metrics_interval |-> n] :
                             c \in {d \in Configs : \A k \in DOMAIN d : d[k]}}
           /\ task = TaskAfterSetup(n)
    /\ command_logs = EmptyBag
    /\ error_logs = EmptyBag
    /\ sent = {}
    /\ command_counts = EmptyDict
    /\ command_timings = EmptyDict
    /\ error_counts = EmptyDict
    /\ frame = [i \in Interactions |-> IdleFrame]
    /\ TrackerIdle
    /\ Running
    /\ Elsewhere

\* metric_snapshot_task fires: create_metric_snapshot builds the snapshot
\* and begins the insert
TaskFires ==
    /\ main # "exited"
    /\ task = "waiting"
    /\ made.create_metric_snapshot < MaxSnapshots
    /\ task' = "inserting"
    /\ created' = Append(created, Built)
    /\ made' = [made EXCEPT !.create_metric_snapshot = @ + 1]
    /\ shutdown_log' = Logged(0, <<"snapshot">>)
    /\ UNCHANGED <<hookVars, metrics, snapshot, calls,
                   main, closing, client, discord, otherVars>>

\* the insert of the periodic task returns (ok: it succeeded, and
\* cleanup_memory is called)
TaskInsertReturns(ok) ==
    /\ main # "exited"
    /\ task = "inserting"
    /\ task' = "waiting"
    /\ metrics' = IF ok THEN Append(metrics, MetricSnapshot) ELSE metrics
    /\ command_timings' =
           IF ok THEN cleanup_memory(command_timings) ELSE command_timings
    /\ shutdown_log' =
           Logged(0, IF ok THEN <<"snapshot_ok">> ELSE <<"snapshot_failed">>)
    /\ UNCHANGED <<config, command_logs, error_logs, sent, command_counts,
                   error_counts, frame, snapshot, created, calls, made,
                   main, closing, client, discord, otherVars>>

\* close up to its first await: the periodic task is cancelled if it is
\* running (an insert it has begun may still land), and the final snapshot
\* is built and its insert begun
CloseBegins(c, trigger) ==
    /\ closing[c].pc = "idle"
    /\ \A j \in CloseCalls : j < c => closing[j].pc # "idle"
    /\ task' = IF IsRunning THEN "cancelled" ELSE task
    /\ \E lands \in BOOLEAN :
           metrics' = IF task = "inserting" /\ lands
                      THEN Append(metrics, MetricSnapshot) ELSE metrics
    /\ created' = Append(created, Built)
    /\ made' = [made EXCEPT !.create_metric_snapshot = @ + 1]
    /\ shutdown_log' =
           Logged(c, (IF IsRunning THEN <<"cancel_task">> ELSE << >>)
                     \o <<"snapshot">>)
    /\ closing' = [closing EXCEPT ![c] =
                      [pc |-> "insert_snapshot", trigger |-> trigger]]
    /\ UNCHANGED <<hookVars, snapshot, calls, client, discord, otherVars>>

\* SIGTERM or SIGINT: signal_handler schedules bot.close() as a task
Signal(c, sig) ==
    /\ main # "exited"
    /\ CloseBegins(c, sig)
    /\ UNCHANGED main

\* bot.start raises: the finally block of main calls bot.close() when the
\* bot is not closed, and main ends otherwise
StartRaises(c) ==
    /\ main = "start"
    /\ IF IsClosed
       THEN /\ main' = "exited"
            /\ UNCHANGED <<hookVars, trackerVars, closing, task, client,
                           discord, shutdown_log, otherVars>>
       ELSE /\ main' = "finally"
            /\ CloseBegins(c, "finally")

\* bot.start returns, the connection closed: main ends
StartReturns ==
    /\ main = "start"
    /\ discord = "closed"
    /\ main' = "exited"
    /\ UNCHANGED <<hookVars, trackerVars, closing, task, client, discord,
                   shutdown_log, otherVars>>

\* when the call of close made by main returns, main ends
MainAfter(c) ==
    IF closing'[c].trigger = "finally" /\ closing'[c].pc \in {"done", "raised"}
    THEN "exited" ELSE main

\* the insert of the final snapshot returns (ok: it succeeded, and
\* cleanup_memory is called; on a closed client the outcome is the
\* driver's): the store connection is closed, and Client.close is called,
\* which returns at once when the bot is closed already
SnapshotInsertReturns(c, ok) ==
    /\ main # "exited"
    /\ closing[c].pc = "insert_snapshot"
    /\ metrics' = IF ok THEN Append(metrics, MetricSnapshot) ELSE metrics
    /\ command_timings' =
           IF ok THEN cleanup_memory(command_timings) ELSE command_timings
    /\ IF ~ok /\ FinalSnapshotRaises
       THEN /\ closing' = [closing EXCEPT ![c].pc = "raised"]
            /\ shutdown_log' = Logged(c, <<"snapshot_failed">>)
            /\ UNCHANGED <<client, discord>>
       ELSE /\ client' = [closed |-> TRUE, close_calls |-> client.close_calls + 1]
            /\ discord' = IF IsClosed THEN discord ELSE "closing"
            /\ closing' = [closing EXCEPT ![c].pc =
                              IF IsClosed THEN "done" ELSE "super_close"]
            /\ shutdown_log' =
                   Logged(c, <<IF ok THEN "snapshot_ok" ELSE "snapshot_failed",
                               "db_close", "super_close">>)
    /\ main' = MainAfter(c)
    /\ UNCHANGED <<config, command_logs, error_logs, sent, command_counts,
                   error_counts, frame, snapshot, created, calls, made, task,
                   otherVars>>

\* Client.close returns: the Discord connection is closed
SuperCloseReturns(c) ==
    /\ main # "exited"
    /\ closing[c].pc = "super_close"
    /\ discord' = "closed"
    /\ closing' = [closing EXCEPT ![c].pc = "done"]
    /\ shutdown_log' = Logged(c, <<"discord_closed">>)
    /\ main' = MainAfter(c)
    /\ UNCHANGED <<hookVars, trackerVars, task, client, otherVars>>

CloseNext ==
    \/ TaskFires
    \/ \E ok \in BOOLEAN : TaskInsertReturns(ok)
    \/ \E c \in CloseCalls, sig \in {"SIGTERM", "SIGINT"} : Signal(c, sig)
    \/ \E c \in CloseCalls : StartRaises(c)
    \/ StartReturns
    \/ \E c \in CloseCalls, ok \in BOOLEAN : SnapshotInsertReturns(c, ok)
    \/ \E c \in CloseCalls : SuperCloseReturns(c)

SpecClose == CloseInit /\ [][CloseNext]_vars

(***************************************************************************)
(* Startup: setup_hook, which awaits _setup_database, creates the tracker, *)
(* loads the cogs and starts metric_snapshot_task.  The outcome of each    *)
(* connection attempt is an input of the run.                              *)
(***************************************************************************)
\* max_retries of _setup_database
max_retries == 3

\* what the server does at an attempt: the ping and ensure_indexes
\* succeed, the ping raises, or ensure_indexes raises
Outcomes == {"ok", "ping_raises", "indexes_raise"}

\* the names bound in the module core/bot.py: its imports, its logger and
\* its class
ModuleNames ==
    {"Optional", "discord", "commands", "tasks", "AsyncIOMotorClient", "time",
     "logging", "Path", "psutil", "os", "Config", "Database",
     "ObservabilityTracker", "print_phase_start", "print_phase_complete",
     "print_checkmark", "ProgressBar", "format_duration", "get_system_info",
     "START_SUCCESS_RICKBOT_ART", "colored", "logger", "RickBot"}

\* the evaluation of a global name raises NameError when it is not bound
NameResolves(name) == name \in ModuleNames

\* setup_hook has called _setup_database, which awaits its first ping
SetupInit ==
    /\ \E n \in Intervals :
           config \in {c @@ [aggregate_metrics_interval |-> n] :
                          c \in {d \in Configs : \A k \in DOMAIN d : d[k]}}
    /\ command_logs = EmptyBag
    /\ error_logs = EmptyBag
    /\ sent = {}
    /\ command_counts = EmptyDict
    /\ command_timings = EmptyDict
    /\ error_counts = EmptyDict
    /\ frame = [i \in Interactions |-> IdleFrame]
    /\ TrackerIdle
    /\ Running
    /\ task = "not_started"
    /\ \E plan \in [1 .. max_retries -> Outcomes] :
           setup = [pc |-> "ping", plan |-> plan, attempt |-> 1,
                    retry_delay |-> 2, db |-> None, indexes |-> FALSE,
                    observer |-> FALSE, sleeps |-> << >>, raised |-> None]
    /\ purge = None
    /\ paginated = None

\* the except block of _setup_database: after the last attempt the
\* exception is raised again; else asyncio.sleep(retry_delay) is evaluated
\* and awaited, the delay is doubled and the next attempt is made
ExceptBlock(s, e) ==
    IF s.attempt = max_retries
    THEN [s EXCEPT !.pc = "raised", !.raised = e]
    ELSE IF ~NameResolves("asyncio")
         THEN [s EXCEPT !.pc = "raised", !.raised = "NameError"]
         ELSE [s EXCEPT !.pc = "ping", !.sleeps = Append(@, s.retry_delay),
                        !.retry_delay = 2 * @, !.attempt = @ + 1]

\* client.admin.command("ping") returns: self.db is assigned and
\* ensure_indexes is awaited
PingReturns ==
    /\ setup.pc = "ping"
    /\ setup.plan[setup.attempt] # "ping_raises"
    /\ setup' = [setup EXCEPT !.pc = "ensure_indexes", !.db = "Database"]
    /\ UNCHANGED <<hookVars, trackerVars, closeVars, purge, paginated>>

\* client.admin.command("ping") raises
PingRaises ==
    /\ setup.pc = "ping"
    /\ setup.plan[setup.attempt] = "ping_raises"
    /\ setup' = ExceptBlock(setup, "ServerSelectionTimeoutError")
    /\ UNCHANGED <<hookVars, trackerVars, closeVars, purge, paginated>>

\* ensure_indexes returns: _setup_database returns, and setup_hook creates
\* the tracker, installs tracked_call and awaits _load_cogs
EnsureIndexesReturns ==
    /\ setup.pc = "ensure_indexes"
    /\ setup.plan[setup.attempt] = "ok"
    /\ setup' = [setup EXCEPT !.pc = "load_cogs", !.indexes = TRUE,
                              !.observer = TRUE]
    /\ UNCHANGED <<hookVars, trackerVars, closeVars, purge, paginated>>

\* ensure_indexes raises
EnsureIndexesRaises ==
    /\ setup.pc = "ensure_indexes"
    /\ setup.plan[setup.attempt] = "indexes_raise"
    /\ setup' = ExceptBlock(setup, "OperationFailure")
    /\ UNCHANGED <<hookVars, trackerVars, closeVars, purge, paginated>>

\* _load_cogs (and _sync_commands) return: metric_snapshot_task is started
\* when the interval is positive, and setup_hook returns
LoadCogsReturns ==
    /\ setup.pc = "load_cogs"
    /\ setup' = [setup EXCEPT !.pc = "done"]
    /\ task' = TaskAfterSetup(config.aggregate_metrics_interval)
    /\ UNCHANGED <<hookVars, trackerVars, main, closing, client, discord,
                   shutdown_log, purge, paginated>>

SetupNext ==
    \/ PingReturns
    \/ PingRaises
    \/ EnsureIndexesReturns
    \/ EnsureIndexesRaises
    \/ LoadCogsReturns

SpecSetup == SetupInit /\ [][SetupNext]_vars

(***************************************************************************)
(* The views of helpers/ui.py.  The host library keeps a view that was     *)
(* sent with a message until it is stopped or times out; for every press   *)
(* of one of its buttons it creates a task that awaits interaction_check   *)
(* and, when that returns True, the callback of the button.                *)
(***************************************************************************)
\* the bot runs and serves no command: the rest of the state
BotRunning ==
    /\ config \in {c \in Configs : \A k \in DOMAIN c : c[k]}
    /\ command_logs = EmptyBag
    /\ error_logs = EmptyBag
    /\ sent = {}
    /\ command_counts = EmptyDict
    /\ command_timings = EmptyDict
    /\ error_counts = EmptyDict
    /\ frame = [i \in Interactions |-> IdleFrame]
    /\ TrackerIdle
    /\ Running
    /\ task = "waiting"
    /\ setup = None

\* interaction.user of the purge command, and another member of the guild
Invoker == "u1"
Other == "u2"
Users == {Invoker, Other}

\* the buttons of a ConfirmationView
Buttons == {"confirm", "cancel"}

\* values of the amount parameter of purge
Amounts == {0, 1, 2, 101}

\* values of the member parameter of purge
Members == {None, Other}

\* the authors of the messages of the channel, the oldest first
ChannelHistory == <<Other, Invoker, Other>>

\* check(m) of purge
Check(member, author) == IF member # None THEN author = member ELSE TRUE

\* channel.purge(limit=amount, check=check): of the last amount messages,
\* those that pass the check are deleted
Purged(amount, member) ==
    {k \in 1 .. Len(ChannelHistory) :
        /\ k > Len(ChannelHistory) - amount
        /\ Check(member, ChannelHistory[k])}

\* ConfirmationView(author_id=...) as constructed; value None is {}
NewView(author) ==
    [author_id |-> author, value |-> {}, live |-> FALSE, timed_out |-> FALSE]

\* variant of InteractionCheck: every user may press
InteractionCheck_anyone(v, user) == TRUE

\* ConfirmationView.interaction_check
InteractionCheck(v, user) == user = v.author_id

\* the purge command was not invoked yet
PurgeInit ==
    /\ BotRunning
    /\ purge = [pc |-> "idle", amount |-> 0, member |-> None,
                view |-> NewView(None), pending |-> {}, pressed |-> 0,
                handled |-> << >>, deleted |-> {}, response |-> "none"]
    /\ paginated = None

\* purge up to view.wait(): the permission and the amount are checked,
\* the view is created and sent with the confirmation message
PurgeInvoked(amount, member, manage_messages) ==
    /\ purge.pc = "idle"
    /\ purge' =
           IF ~manage_messages
           THEN [purge EXCEPT !.pc = "done", !.amount = amount,
                              !.member = member,
                              !.response = "missing_permissions"]
           ELSE IF amount < 1 \/ amount > 100
           THEN [purge EXCEPT !.pc = "done", !.amount = amount,
                              !.member = member,
                              !.response = "invalid_amount"]
           ELSE [purge EXCEPT !.pc = "wait", !.amount = amount,
                              !.member = member,
                              !.view = [NewView(Invoker) EXCEPT !.live = TRUE],
                              !.response = "confirm_purge"]
    /\ UNCHANGED <<hookVars, trackerVars, closeVars, setup, paginated>>

\* a user presses a button of the message while the view is kept: the
\* library creates the task of the press
Press(user, button) ==
    /\ purge.view.live
    /\ purge.pressed < MaxPresses
    /\ purge' = [purge EXCEPT
                    !.pressed = @ + 1,
                    !.pending = @ \cup {[id |-> purge.pressed + 1,
                                         user |-> user, button |-> button]}]
    /\ UNCHANGED <<hookVars, trackerVars, closeVars, setup, paginated>>

\* the task of a press runs: interaction_check, and for the author the
\* callback confirm_button or cancel_button, which sets value and stops
\* the view
HandlePress(id) ==
    /\ \E p \in purge.pending : p.id = id
    /\ LET t == CHOOSE p \in purge.pending : p.id = id
           allowed == InteractionCheck(purge.view, t.user)
           done == [purge EXCEPT
                       !.pending = @ \ {t},
                       !.handled = Append(@, [user |-> t.user,
                                              button |-> t.button,
                                              allowed |-> allowed])]
       IN  purge' =
               IF allowed
               THEN [done EXCEPT !.view.value = {t.button = "confirm"},
                                 !.view.live = FALSE]
               ELSE done
    /\ UNCHANGED <<hookVars, trackerVars, closeVars, setup, paginated>>

\* the view times out, 60 seconds after the last press
Timeout ==
    /\ purge.view.live
    /\ purge' = [purge EXCEPT !.view.live = FALSE, !.view.timed_out = TRUE]
    /\ UNCHANGED <<hookVars, trackerVars, closeVars, setup, paginated>>

\* view.wait() returns, the view stopped or timed out: purge reads
\* view.value and returns, or awaits channel.purge
WaitReturns ==
    /\ purge.pc = "wait"
    /\ ~purge.view.live
    /\ purge' =
           IF purge.view.value = {}
           THEN [purge EXCEPT !.pc = "done", !.response = "timed_out"]
           ELSE IF purge.view.value = {FALSE}
           THEN [purge EXCEPT !.pc = "done", !.response = "cancelled"]
           ELSE [purge EXCEPT !.pc = "purging"]
    /\ UNCHANGED <<hookVars, trackerVars, closeVars, setup, paginated>>

\* channel.purge returns the deleted messages, or raises (Forbidden or
\* another exception): the outcome is shown
PurgeReturns(ok) ==
    /\ purge.pc = "purging"
    /\ purge' =
           IF ok
           THEN [purge EXCEPT !.pc = "done", !.response = "deleted",
                              !.deleted = Purged(purge.amount, purge.member)]
           ELSE [purge EXCEPT !.pc = "done", !.response = "purge_failed"]
    /\ UNCHANGED <<hookVars, trackerVars, closeVars, setup, paginated>>

PurgeNext ==
    \/ \E amount \in Amounts, member \in Members, permitted \in BOOLEAN :
           PurgeInvoked(amount, member, permitted)
    \/ \E user \in Users, button \in Buttons : Press(user, button)
    \/ \E id \in 1 .. MaxPresses : HandlePress(id)
    \/ Timeout
    \/ WaitReturns
    \/ \E ok \in BOOLEAN : PurgeReturns(ok)

SpecPurge == PurgeInit /\ [][PurgeNext]_vars

(***************************************************************************)
(* PaginatedView.  A client shows the buttons as of the last edit of the   *)
(* message it has received, so a press can be delivered for a button that  *)
(* the view has disabled since.                                            *)
(***************************************************************************)
\* _update_buttons
UpdateButtons(current_page, n) ==
    [first_page |-> current_page = 0, prev_page |-> current_page = 0,
     next_page |-> current_page = n - 1, last_page |-> current_page = n - 1]

\* embeds[k] raises IndexError: k is outside -len(embeds) .. len(embeds)-1
IndexError(k, n) == k < 0 - n \/ k > n - 1

\* PaginatedView(embeds, author_id=...) sent with a message
PaginatedInit ==
    /\ BotRunning
    /\ purge = None
    /\ \E n \in 1 .. MaxPages, author \in {None, Invoker} :
           paginated = [embeds |-> n, author_id |-> author,
                        current_page |-> 0,
                        disabled |-> UpdateButtons(0, n),
                        message |-> UpdateButtons(0, n),
                        shown |-> UpdateButtons(0, n),
                        delivered |-> 0, raised |-> FALSE]

\* PaginatedView.interaction_check
MayUse(user) ==
    ~(paginated.author_id # None /\ user # paginated.author_id)

\* a press of button by user is delivered: the button is enabled on the
\* message as the client shows it
Delivered(user, button) ==
    /\ paginated.delivered < MaxCallbacks
    /\ ~paginated.shown[button]
    /\ MayUse(user)

\* the callback has set current_page to k: _update_buttons, then
\* edit_message(embed=embeds[k], view=self), unless embeds[k] raises
Turned(k) ==
    [paginated EXCEPT
        !.current_page = k,
        !.disabled = UpdateButtons(k, paginated.embeds),
        !.raised = IndexError(k, paginated.embeds),
        !.message = IF IndexError(k, paginated.embeds) THEN @
                    ELSE UpdateButtons(k, paginated.embeds),
        !.delivered = @ + 1]

\* first_page
FirstPage(user) ==
    /\ Delivered(user, "first_page")
    /\ paginated' = Turned(0)
    /\ UNCHANGED <<hookVars, trackerVars, closeVars, setup, purge>>

\* prev_page
PrevPage(user) ==
    /\ Delivered(user, "prev_page")
    /\ paginated' = Turned(paginated.current_page - 1)
    /\ UNCHANGED <<hookVars, trackerVars, closeVars, setup, purge>>

\* next_page
NextPage(user) ==
    /\ Delivered(user, "next_page")
    /\ paginated' = Turned(paginated.current_page + 1)
    /\ UNCHANGED <<hookVars, trackerVars, closeVars, setup, purge>>

\* last_page
LastPage(user) ==
    /\ Delivered(user, "last_page")
    /\ paginated' = Turned(paginated.embeds - 1)
    /\ UNCHANGED <<hookVars, trackerVars, closeVars, setup, purge>>

\* a press by a user who may not use the buttons: interaction_check sends
\* the refusal and returns False
Refused(user) ==
    /\ paginated.delivered < MaxCallbacks
    /\ ~MayUse(user)
    /\ paginated' = [paginated EXCEPT !.delivered = @ + 1]
    /\ UNCHANGED <<hookVars, trackerVars, closeVars, setup, purge>>

\* the edited message reaches the client: it shows the buttons as they
\* are in the message
Rendered ==
    /\ paginated.shown # paginated.message
    /\ paginated' = [paginated EXCEPT !.shown = paginated.message]
    /\ UNCHANGED <<hookVars, trackerVars, closeVars, setup, purge>>

PaginatedNext ==
    \/ \E user \in Users : FirstPage(user)
    \/ \E user \in Users : PrevPage(user)
    \/ \E user \in Users : NextPage(user)
    \/ \E user \in Users : LastPage(user)
    \/ \E user \in Users : Refused(user)
    \/ Rendered

SpecPaginated == PaginatedInit /\ [][PaginatedNext]_vars

(***************************************************************************)
(* Properties.                                                             *)
(***************************************************************************)
\* tracked_call of interaction i has ended
Ended(i) == frame[i].pc \in {"returned", "raised"}

\* the rows written for interaction i
CommandRows(i) == {r \in BagToSet(command_logs) : r.interaction = i}
ErrorRows(i) == {r \in BagToSet(error_logs) : r.interaction = i}

\* ERR-, then error_reference_length characters of A-Z0-9, then digits only
WellFormed(ref) ==
    /\ Len(ref) >= 4 + error_reference_length
    /\ SubSeq(ref, 1, 4) = <<"E", "R", "R", "-">>
    /\ \A k \in 5 .. 4 + error_reference_length : ref[k] \in UpperAlnum
    /\ \A k \in 5 + error_reference_length .. Len(ref) :
           ref[k] \in {DigitChars[d] : d \in 1 .. 10}

\* the reference carries characters after its code
HasSuffix(ref) == Len(ref) > 4 + error_reference_length

\* an exception left log_error of interaction i: one is propagating, or
\* has left tracked_call, and no send was attempted
LogErrorRaised(i) ==
    /\ ~frame[i].success
    /\ frame[i].send = "none"
    /\ frame[i].pending \/ Ended(i)

\* C1: an invocation whose dispatch returned, with the command known,
\* track_command_execution on and no failure of the command_logs insert,
\* has exactly one CommandLog row once tracked_call has ended, and that row
\* has success = true and no error_reference.
C1_SuccessLoggedOnce ==
    \A i \in Interactions :
        ( /\ Ended(i)
          /\ frame[i].success
          /\ frame[i].command # None
          /\ config.track_command_execution
          /\ frame[i].command_insert # "fail" )
        => /\ RowsFor(command_logs, i) = 1
           /\ \A r \in CommandRows(i) : r.success /\ r.error_reference = NoRef

\* C1 witness: a successful invocation has ended with its row stored
C1_Witness ==
    \E i \in Interactions :
        /\ frame[i].pc = "returned"
        /\ frame[i].success
        /\ RowsFor(command_logs, i) = 1

\* the ErrorLog row and the CommandLog row of interaction i agree: one of
\* each, success = false, the same error_reference
FailureLoggedOnce(i) ==
    /\ RowsFor(error_logs, i) = 1
    /\ RowsFor(command_logs, i) = 1
    /\ \A e \in ErrorRows(i), c \in CommandRows(i) :
           /\ ~c.success
           /\ e.error_reference # NoRef
           /\ c.error_reference = e.error_reference

\* C2 as stated: every invocation whose dispatch raised has, once
\* tracked_call has ended, exactly one ErrorLog row and exactly one
\* CommandLog row with success = false and the same error_reference.
C2_Original ==
    \A i \in Interactions :
        (Ended(i) /\ ~frame[i].success) => FailureLoggedOnce(i)

\* C2 amended: the same, for the invocations with the command known,
\* track_errors and track_command_execution on, and neither insert failing.
C2_FailureLoggedOnce ==
    \A i \in Interactions :
        ( /\ Ended(i)
          /\ ~frame[i].success
          /\ frame[i].command # None
          /\ config.track_errors
          /\ config.track_command_execution
          /\ frame[i].error_insert # "fail"
          /\ frame[i].command_insert # "fail" )
        => FailureLoggedOnce(i)

\* C2 witness: a failed invocation has ended with both rows stored
C2_Witness ==
    \E i \in Interactions :
        /\ Ended(i)
        /\ ~frame[i].success
        /\ frame[i].error_insert = "ok"
        /\ frame[i].command_insert = "ok"
        /\ FailureLoggedOnce(i)

\* C3: no exception leaves tracked_call or propagates in it, whatever
\* fails after the dispatch raised (the probe, the ErrorLog insert, the
\* send); and after a failed send the CommandLog row is written as it
\* would be otherwise (command known, track_command_execution on, insert
\* not failing).
C3_NothingEscapes ==
    \A i \in Interactions :
        /\ frame[i].pc # "raised"
        /\ ~frame[i].pending
        /\ ( /\ Ended(i)
             /\ frame[i].send = "fail"
             /\ frame[i].command # None
             /\ config.track_command_execution
             /\ frame[i].command_insert # "fail" )
           => RowsFor(command_logs, i) = 1

\* C3 witness: the ErrorLog insert and the send failed, tracked_call
\* returned and the CommandLog row is stored
C3_Witness ==
    \E i \in Interactions :
        /\ frame[i].pc = "returned"
        /\ ~frame[i].success
        /\ frame[i].error_insert = "fail"
        /\ frame[i].send = "fail"
        /\ RowsFor(command_logs, i) = 1

\* C4: when the dispatch returned and the command_logs insert failed,
\* tracked_call returned normally, no reference was generated, log_error
\* was not called, no ErrorLog row was written and no message was sent.
C4_InsertFailureContained ==
    \A i \in Interactions :
        (frame[i].success /\ frame[i].command_insert = "fail")
        => /\ frame[i].pc = "returned"
           /\ frame[i].probes = << >>
           /\ frame[i].generated = NoRef
           /\ frame[i].log_error_calls = 0
           /\ frame[i].error_insert = "none"
           /\ frame[i].send = "none"
           /\ RowsFor(error_logs, i) = 0
           /\ \A m \in sent : m.interaction # i

\* C4 witness: a successful invocation whose command_logs insert failed
C4_Witness ==
    \E i \in Interactions :
        /\ frame[i].success
        /\ frame[i].command_insert = "fail"
        /\ Ended(i)

\* C5: no exception leaves log_error; the reference it returned is well
\* formed, also after the probe and the insert failed; and with
\* track_errors off it returned a reference and stored no ErrorLog row.
C5_LogErrorReturnsReference ==
    \A i \in Interactions :
        /\ ~LogErrorRaised(i)
        /\ (~frame[i].success /\ frame[i].pc \in {"send_message", "insert_command"})
           => /\ frame[i].log_error_calls = 1
              /\ WellFormed(frame[i].error_ref)
        /\ (frame[i].log_error_calls >= 1 /\ ~config.track_errors)
           => /\ frame[i].error_insert = "none"
              /\ RowsFor(error_logs, i) = 0

\* C5 witness: log_error returned a reference after the probe and the
\* insert both failed
C5_Witness ==
    \E i \in Interactions :
        /\ frame[i].pc = "send_message"
        /\ frame[i].probes = <<"fail">>
        /\ frame[i].error_insert = "fail"
        /\ WellFormed(frame[i].error_ref)

\* C6 as stated: what generate_error_reference returns is well formed and
\* is not the error_reference of a row that was in error_logs when the call
\* began, on every path.
C6_Original ==
    \A i \in Interactions :
        frame[i].generated # NoRef
        => /\ WellFormed(frame[i].generated)
           /\ frame[i].generated \notin frame[i].store_at_call

\* C7: no two rows of error_logs have the same error_reference.
C7_ReferencesUnique ==
    /\ \A r \in BagToSet(error_logs) : CopiesIn(r, error_logs) = 1
    /\ \A r1, r2 \in BagToSet(error_logs) :
           r1.error_reference = r2.error_reference => r1 = r2

\* C7 witness: interaction i is about to insert a reference that was free
\* when it began to generate it and that another interaction has stored
\* since
C7_Witness ==
    \E i, j \in Interactions :
        /\ i # j
        /\ frame[i].pc = "insert_error"
        /\ frame[i].log_error_ref \notin frame[i].store_at_call
        /\ \E r \in ErrorRows(j) : r.error_reference = frame[i].log_error_ref

\* C8: generate_error_reference probes at most 3 times; every probe before
\* the last reported a collision; a candidate reported absent is returned
\* as it is, without suffix; and the returned reference carries the suffix
\* exactly when 3 probes reported a collision.
C8_AtMostThreeProbes ==
    \A i \in Interactions :
        LET f == frame[i]
            n == Len(f.probes)
        IN  /\ n <= 3
            /\ f.pc = "find_one" => n < 3
            /\ f.generated # NoRef
               => /\ n >= 1
                  /\ \A k \in 1 .. n - 1 : f.probes[k] = "existing"
                  /\ f.probes[n] = "absent"
                     => f.generated = f.candidate /\ ~HasSuffix(f.generated)
                  /\ HasSuffix(f.generated)
                     <=> (n = 3 /\ f.probes[3] = "existing")
                  /\ HasSuffix(f.generated)
                     => Len(f.generated) = 4 + error_reference_length + 3

\* C8 witness: two collisions, then a free candidate, returned without
\* suffix after 3 probes
C8_Witness ==
    \E i \in Interactions :
        /\ frame[i].probes = <<"existing", "existing", "absent">>
        /\ frame[i].generated = frame[i].candidate
        /\ Len(frame[i].generated) = 4 + error_reference_length

\* a call of log_command_execution for interaction i completes in this step
LogCommandCompletes(i) ==
    frame'[i].log_command_calls = frame[i].log_command_calls + 1

\* C9 as stated: every call of log_command_execution adds one to the count
\* of the command and appends the duration to its list, whatever the flags.
C9_Original ==
    [][\A i \in Interactions :
          LogCommandCompletes(i)
          => LET name == frame[i].command
             IN  /\ name \in DOMAIN command_counts'
                 /\ command_counts'[name] = DictGet(command_counts, name, 0) + 1
                 /\ name \in DOMAIN command_timings'
                 /\ \E ms \in Durations(i) :
                        command_timings'[name] =
                            Append(DictGet(command_timings, name, << >>), ms)]_vars

\* C9 amended: a call made with track_command_execution on adds one to the
\* count of the command, whether or not the insert succeeds, and appends
\* the duration to its list exactly when track_command_timing is on; a
\* call made with track_command_execution off changes neither map.  No
\* other entry of the maps changes.
C9_CountersUpdated ==
    [][\A i \in Interactions :
          LogCommandCompletes(i)
          => LET name == frame[i].command
                 ms == frame[i].execution_time_ms
             IN  IF config.track_command_execution
                 THEN /\ DOMAIN command_counts' = DOMAIN command_counts \cup {name}
                      /\ command_counts'[name] =
                             DictGet(command_counts, name, 0) + 1
                      /\ \A c \in DOMAIN command_counts \ {name} :
                             command_counts'[c] = command_counts[c]
                      /\ IF config.track_command_timing
                         THEN /\ DOMAIN command_timings' =
                                     DOMAIN command_timings \cup {name}
                              /\ ms \in Durations(i)
                              /\ command_timings'[name] =
                                     Append(DictGet(command_timings, name, << >>),
                                            ms)
                              /\ \A c \in DOMAIN command_timings \ {name} :
                                     command_timings'[c] = command_timings[c]
                         ELSE command_timings' = command_timings
                 ELSE /\ command_counts' = command_counts
                      /\ command_timings' = command_timings]_vars

\* C9 witness: the second call for a command has completed, its insert
\* failed, and the count of the command is 2
C9_Witness ==
    \E i, j \in Interactions :
        /\ i # j
        /\ frame[i].command = frame[j].command
        /\ frame[i].log_command_calls = 1
        /\ frame[j].log_command_calls = 1
        /\ frame[j].command_insert = "fail"
        /\ config.track_command_execution
        /\ DictGet(command_counts, frame[j].command, 0) = 2

\* the interactions whose log_error call for an exception of type t has
\* completed
LogErrorCompleted(t) ==
    {i \in Interactions : frame[i].log_error_calls = 1 /\ frame[i].error = t}

\* every exception type of the model
AllErrorTypes == UNION {ErrorTypes(c) : c \in CommandNames \cup {None}}

\* C10 as stated: the counter of each exception type is the number of
\* completed log_error calls for it, and total_errors of a snapshot is the
\* number of completed log_error calls, whatever track_errors is.
C10_Original ==
    /\ \A t \in AllErrorTypes :
           DictGet(error_counts, t, 0) = Cardinality(LogErrorCompleted(t))
    /\ MetricSnapshot.total_errors =
           Cardinality({i \in Interactions : frame[i].log_error_calls = 1})

\* C10 amended: with track_errors on, the counter of each exception type is
\* the number of completed log_error calls for it (also when the insert
\* failed) and total_errors of a snapshot is the number of completed
\* calls; with track_errors off, no counter is touched.
C10_ErrorsCounted ==
    IF config.track_errors
    THEN /\ \A t \in AllErrorTypes :
                DictGet(error_counts, t, 0) = Cardinality(LogErrorCompleted(t))
         /\ DOMAIN error_counts \subseteq AllErrorTypes
         /\ MetricSnapshot.total_errors =
                Cardinality({i \in Interactions : frame[i].log_error_calls = 1})
    ELSE error_counts = EmptyDict /\ MetricSnapshot.total_errors = 0

\* C10 witness: two log_error calls for the same exception type have
\* completed, the insert of one failed, and the counter is 2
C10_Witness ==
    \E i, j \in Interactions :
        /\ i # j
        /\ frame[i].error = frame[j].error
        /\ frame[i].log_error_calls = 1
        /\ frame[j].log_error_calls = 1
        /\ frame[j].error_insert = "fail"
        /\ DictGet(error_counts, frame[j].error, 0) = 2

\* the interactions whose log_command_execution call for command name has
\* completed
LogCommandCompleted(name) ==
    {i \in Interactions :
        frame[i].log_command_calls = 1 /\ frame[i].command = name}

\* C11: whatever the interleaving of the invocations at their awaits, no
\* counter update is lost.  With track_command_execution on, the count of
\* each command is the number of log_command_execution calls completed for
\* it and the counts sum up to the number of completed calls (and with
\* track_command_timing on, each list has one duration per completed call);
\* with track_errors on, the same for the error types and the completed
\* log_error calls.
C11_NoLostUpdate ==
    /\ config.track_command_execution
       => /\ \A name \in CommandNames :
                 /\ DictGet(command_counts, name, 0) =
                        Cardinality(LogCommandCompleted(name))
                 /\ config.track_command_timing
                    => Len(DictGet(command_timings, name, << >>)) =
                           Cardinality(LogCommandCompleted(name))
          /\ SumValues(command_counts) =
                 Cardinality({i \in Interactions : frame[i].log_command_calls = 1})
    /\ config.track_errors
       => /\ \A t \in AllErrorTypes :
                 DictGet(error_counts, t, 0) = Cardinality(LogErrorCompleted(t))
          /\ SumValues(error_counts) =
                 Cardinality({i \in Interactions : frame[i].log_error_calls = 1})

\* C11 witness: two failing invocations overlap: the one that arrived
\* first is suspended at its CommandLog insert, its log_error call done,
\* while the one that arrived after it has completed both its calls; the
\* error counts sum up to 2 and the command counts to 1
C11_Witness ==
    /\ NumInteractions >= 2
    /\ frame[1].pc = "insert_command"
    /\ frame[1].log_error_calls = 1
    /\ frame[2].pc = "returned"
    /\ frame[2].log_error_calls = 1
    /\ frame[2].log_command_calls = 1
    /\ config.track_command_execution
    /\ config.track_errors
    /\ SumValues(command_counts) = 1
    /\ SumValues(error_counts) = 2

\* the number of calls made for each command, from the record of the calls
CallsByName(c) == [name \in DOMAIN c |-> Len(c[name])]

\* the mean of the durations of the calls of each command, as sum and length
MeanByName(c) ==
    [name \in DOMAIN c |-> [sum |-> SeqSum(c[name]), len |-> Len(c[name])]]

\* the snapshots built before any reset_metrics and before cleanup_memory
\* shortened a list
FirstSnapshots ==
    {k \in 1 .. Len(created) :
        created[k].resets = 0 /\ created[k].truncations = 0}

DictLeq(d1, d2) ==
    \A k \in DOMAIN d1 : k \in DOMAIN d2 /\ d1[k] <= d2[k]

\* the counts of snapshot s2 are at least those of snapshot s1
CountsLeq(s1, s2) ==
    /\ s1.total_commands_executed <= s2.total_commands_executed
    /\ DictLeq(s1.commands_by_name, s2.commands_by_name)
    /\ s1.total_errors <= s2.total_errors
    /\ DictLeq(s1.errors_by_type, s2.errors_by_type)

\* C13 as stated: of any two snapshots built one after the other, the
\* counts of the later are at least those of the earlier, whatever tracker
\* methods were called in between.
C13_Original ==
    \A j \in 1 .. Len(created) : \A k \in j + 1 .. Len(created) :
        CountsLeq(created[j].snapshot, created[k].snapshot)

\* C13 amended: the same, for two snapshots with no call of reset_metrics
\* between them.
C13_CountsMonotone ==
    \A j \in 1 .. Len(created) : \A k \in j + 1 .. Len(created) :
        created[j].resets = created[k].resets
        => CountsLeq(created[j].snapshot, created[k].snapshot)

\* C13 witness: two snapshots with no reset between them, a successful
\* insert of the first (with cleanup_memory shortening a list), and a
\* command and an error logged in between
C13_Witness ==
    /\ Len(created) = 2
    /\ Len(metrics) >= 1
    /\ created[1].resets = created[2].resets
    /\ created[2].truncations > created[1].truncations
    /\ created[1].snapshot.total_commands_executed <
           created[2].snapshot.total_commands_executed
    /\ created[1].snapshot.total_errors < created[2].snapshot.total_errors

\* C14: when cleanup_memory returns (called directly, or by
\* create_metric_snapshot after a successful insert), no duration list has
\* more than 100 entries, and the invocation counters and the error-type
\* counters are what they were before the call.
C14_CleanupKeepsCounters ==
    [][(CleanupMemory \/ MetricsInsertOk)
       => /\ \A cmd \in DOMAIN command_timings' :
                 Len(command_timings'[cmd]) <= 100
          /\ command_counts' = command_counts
          /\ error_counts' = error_counts]_vars

\* C14 witness: cleanup_memory has shortened the list of command "a" to
\* 100 entries, while its counter and an error counter stand
C14_Witness ==
    /\ made.truncations >= 1
    /\ made.reset_metrics = 0
    /\ "a" \in DOMAIN command_timings
    /\ Len(command_timings["a"]) = 100
    /\ DictGet(command_counts, "a", 0) > 100
    /\ SumValues(error_counts) >= 1

\* C15: when reset_metrics returns, the invocation-count map, the
\* duration-list map and the error-type-count map are empty, whatever they
\* held.
C15_ResetEmptiesMaps ==
    [][ResetMetrics
       => /\ DOMAIN command_counts' = {}
          /\ DOMAIN command_timings' = {}
          /\ DOMAIN error_counts' = {}]_vars

\* C15 witness: reset_metrics has returned after commands and an error were
\* counted, and the three maps are empty
C15_Witness ==
    /\ made.reset_metrics >= 1
    /\ made.log_command_execution = MaxCalls
    /\ made.log_error = MaxErrors
    /\ config.track_command_execution
    /\ config.track_command_timing
    /\ config.track_errors
    /\ DOMAIN command_counts = {}
    /\ DOMAIN command_timings = {}
    /\ DOMAIN error_counts = {}

\* C16: with track_command_args off, every CommandLog row stored has no
\* arguments, whatever the caller of log_command_execution passed.
C16_NoArgumentsStored ==
    ~config.track_command_args
    => \A r \in BagToSet(command_logs) : r.arguments = {}

\* C16 witness: with track_command_args off, log_command_execution was
\* called for command "a" with the arguments {amount: 5}, and its row is
\* stored without arguments
C16_Witness ==
    /\ ~config.track_command_args
    /\ config.track_command_execution
    /\ \E ms \in Durations(1) :
           /\ "a" \in DOMAIN calls
           /\ calls["a"][Len(calls["a"])] = ms
           /\ [amount |-> 5] \in UNION CallerArguments("a")
           /\ \E r \in BagToSet(command_logs) :
                  /\ r.command_name = "a"
                  /\ r.execution_time_ms = ms
                  /\ r.arguments = {}

\* C17: every CommandLog row written by tracked_call has an error_reference
\* exactly when its success is false, and so has the row tracked_call is
\* about to write, whatever failed while the error was logged (the probe,
\* the ErrorLog insert) or shown (the send).
C17_ReferenceIffFailure ==
    \A i \in Interactions :
        /\ \A r \in CommandRows(i) :
               /\ ~r.success => WellFormed(r.error_reference)
               /\ r.success => r.error_reference = NoRef
        /\ frame[i].pc = "insert_command"
           => (frame[i].success <=> frame[i].error_ref = NoRef)

\* C17 witness: the row of a successful invocation without reference, and
\* the row of a failed one with its reference, written after the ErrorLog
\* insert and the send both failed
C17_Witness ==
    \E i, j \in Interactions :
        /\ \E r \in CommandRows(i) : r.success /\ r.error_reference = NoRef
        /\ frame[j].error_insert = "fail"
        /\ frame[j].send = "fail"
        /\ \E r \in CommandRows(j) : ~r.success /\ WellFormed(r.error_reference)

\* the ErrorLog insert of interaction i has returned, if log_error makes one
ErrorInsertReturned(i) ==
    config.track_errors => frame[i].error_insert \in {"ok", "fail"}

\* C18: in a failing invocation the ErrorLog insert returns (or fails)
\* before the message is sent, the message carries the reference log_error
\* returned, and the send returns (or fails) before the CommandLog insert
\* is begun; a CommandLog row of the invocation is stored only after its
\* ErrorLog insert has returned.
C18_ErrorRowFirst ==
    \A i \in Interactions :
        ~frame[i].success
        => /\ frame[i].pc \in {"find_one", "insert_error"}
              => /\ frame[i].error_insert = "none"
                 /\ frame[i].send = "none"
                 /\ frame[i].command_insert = "none"
                 /\ CommandRows(i) = {}
           /\ frame[i].pc = "send_message"
              => /\ ErrorInsertReturned(i)
                 /\ frame[i].send = "none"
                 /\ frame[i].command_insert = "none"
                 /\ CommandRows(i) = {}
           /\ frame[i].send # "none" => ErrorInsertReturned(i)
           /\ (frame[i].pc = "insert_command" \/ frame[i].command_insert # "none")
              => /\ ErrorInsertReturned(i)
                 /\ frame[i].send \in {"ok", "fail"}
           /\ CommandRows(i) # {}
              => /\ ErrorInsertReturned(i)
                 /\ frame[i].send \in {"ok", "fail"}
                 /\ frame[i].command_insert = "ok"
           /\ \A m \in sent :
                  m.interaction = i
                  => /\ frame[i].send = "ok"
                     /\ WellFormed(m.error_ref)
                     /\ \A r \in ErrorRows(i) \cup CommandRows(i) :
                            r.error_reference = m.error_ref

\* C18 witness: a failed invocation with its ErrorLog row, its message and
\* its CommandLog row, all with the same reference
C18_Witness ==
    \E i \in Interactions :
        /\ ~frame[i].success
        /\ frame[i].error_insert = "ok"
        /\ frame[i].send = "ok"
        /\ frame[i].command_insert = "ok"
        /\ \E e \in ErrorRows(i), c \in CommandRows(i), m \in sent :
               /\ m.interaction = i
               /\ e.error_reference = m.error_ref
               /\ c.error_reference = m.error_ref

\* the steps call c of close has taken, in order
Steps(c) ==
    LET mine == SelectSeq(shutdown_log, LAMBDA e : e.call = c)
    IN  [k \in 1 .. Len(mine) |-> mine[k].step]

\* p is a prefix of q
IsPrefix(p, q) == Len(p) <= Len(q) /\ SubSeq(q, 1, Len(p)) = p

\* what a seq holds
Range(q) == {q[k] : k \in 1 .. Len(q)}

\* the orders of the steps of one call of close: the task cancelled or not
\* running, the snapshot inserted or not, the Discord connection closed by
\* this call or closed already
CloseOrders ==
    {cancel \o <<"snapshot", res, "db_close", "super_close">> \o last :
        cancel \in {<<"cancel_task">>, << >>},
        res \in {"snapshot_ok", "snapshot_failed"},
        last \in {<<"discord_closed">>, << >>}}

\* the calls of close made so far
Called == {c \in CloseCalls : closing[c].pc # "idle"}

FinalSnapshots ==
    {k \in 1 .. Len(shutdown_log) :
        shutdown_log[k].call \in CloseCalls /\ shutdown_log[k].step = "snapshot"}

\* C20 as stated: whatever the shutdown triggers, never more than one final
\* snapshot is built and the store connection is never closed more than
\* once, and when main has ended exactly one final snapshot was built and
\* the store connection was closed exactly once.
C20_Original ==
    /\ Cardinality(FinalSnapshots) <= 1
    /\ client.close_calls <= 1
    /\ main = "exited"
       => Cardinality(FinalSnapshots) = 1 /\ client.close_calls = 1

\* the steps of the record taken by the periodic task
TimerSteps == {k \in 1 .. Len(shutdown_log) : shutdown_log[k].call = 0}

\* C21: when aggregate_metrics_interval is 0 or less, metric_snapshot_task
\* is never started, the timer creates no snapshot at any point of the
\* run, and every snapshot that is created is one that a call of close
\* built at shutdown.
C21_NoTimerSnapshot ==
    config.aggregate_metrics_interval <= 0 =>
        /\ task = "not_started"
        /\ TimerSteps = {}
        /\ Len(created) = Cardinality(FinalSnapshots)
        /\ Len(metrics) <= Cardinality(FinalSnapshots)

\* C21 witness: the interval is 0, the bot has shut down, and the one snapshot
\* of the run is the final one, stored
C21_Witness ==
    /\ config.aggregate_metrics_interval = 0
    /\ main = "exited"
    /\ Len(created) = 1
    /\ Len(metrics) = 1
    /\ Cardinality(FinalSnapshots) = 1

\* C22: create_metric_snapshot calls cleanup_memory only after the insert
\* succeeded.  A failed insert ends the call (nothing is raised: the call
\* is over and the next one can be made) with the three maps as they were,
\* no list truncated; and no step of create_metric_snapshot, whatever the
\* outcome of the insert, changes the invocation counters or the
\* error-type counters.
C22_FailedInsertKeepsMaps ==
    [][/\ MetricsInsertFails =>
              /\ command_counts' = command_counts
              /\ command_timings' = command_timings
              /\ error_counts' = error_counts
              /\ made'.truncations = made.truncations
              /\ snapshot' = {}
       /\ (CreateMetricSnapshot \/ MetricsInsertOk \/ MetricsInsertFails) =>
              /\ command_counts' = command_counts
              /\ error_counts' = error_counts]_vars

\* C22 witness: the insert of the only snapshot built has failed, and the list
\* of more than 100 durations is still whole
C22_Witness ==
    /\ made.create_metric_snapshot = 1
    /\ snapshot = {}
    /\ metrics = << >>
    /\ made.truncations = 0
    /\ "a" \in DOMAIN command_timings
    /\ Len(command_timings["a"]) > KeepLast
    /\ command_timings["a"] = calls["a"]

\* p is the end of q
IsSuffix(p, q) ==
    Len(p) <= Len(q) /\ SubSeq(q, Len(q) - Len(p) + 1, Len(q)) = p

\* the durations of cmd appended since the last snapshot was built
Awaited(cmd) ==
    SubSeq(calls[cmd],
           Len(DictGet(created[Len(created)].calls, cmd, << >>)) + 1,
           Len(calls[cmd]))

\* what cleanup_memory does to the lists
KeepsLast100 ==
    /\ DOMAIN command_timings' = DOMAIN command_timings
    /\ \A cmd \in DOMAIN command_timings :
           LET q == command_timings[cmd]
           IN  IF Len(q) <= KeepLast
               THEN command_timings'[cmd] = q
               ELSE /\ Len(command_timings'[cmd]) = KeepLast
                    /\ \A k \in 1 .. KeepLast :
                           command_timings'[cmd][k] = q[Len(q) - KeepLast + k]

\* C23 as stated: whatever was appended during the await is retained
C23_Original ==
    [][MetricsInsertOk =>
          \A cmd \in DOMAIN command_timings :
              IsSuffix(Awaited(cmd), command_timings'[cmd])]_vars

\* C23: cleanup_memory replaces every duration list longer than 100
\* entries by its last 100 entries in their original order and leaves
\* every list of at most 100 entries unchanged; the durations appended
\* while the snapshot insert was awaited are among the retained entries
\* when at most 100 of them were appended to the list.
C23_KeepsLast100 ==
    [][/\ (CleanupMemory \/ MetricsInsertOk) => KeepsLast100
       /\ MetricsInsertOk =>
              \A cmd \in DOMAIN command_timings :
                  Len(Awaited(cmd)) <= KeepLast =>
                      IsSuffix(Awaited(cmd), command_timings'[cmd])]_vars

\* C23 witness: the snapshot is stored, the list was truncated to the last 100
\* of 101 durations, and the durations appended during the await are among them
C23_Witness ==
    /\ metrics # << >>
    /\ made.truncations = 1
    /\ Len(created) = 1
    /\ Len(DictGet(calls, "a", << >>)) = KeepLast + 1
    /\ Len(DictGet(created[1].calls, "a", << >>)) = KeepLast - 1
    /\ DictGet(command_timings, "a", << >>) = SubSeq(calls["a"], 2, KeepLast + 1)

\* the snapshots built before any reset_metrics
UnresetSnapshots == {k \in 1 .. Len(created) : created[k].resets = 0}

\* C27 as stated: the average of every counted command is the mean of all
\* the executions counted
C27_Original ==
    \A k \in UnresetSnapshots :
        LET s == created[k].snapshot
            c == created[k].calls
        IN  \A name \in DOMAIN s.commands_by_name :
                /\ name \in DOMAIN s.average_command_time_ms
                /\ s.average_command_time_ms[name] =
                       [sum |-> SeqSum(LastN(c[name], s.commands_by_name[name])),
                        len |-> s.commands_by_name[name]]

\* C27: in every MetricSnapshot built with no reset_metrics before it, the
\* count of a command is the number of all its executions; with
\* track_command_timing on the average has an entry for every counted
\* command and is the mean of the most recent durations of the command, as
\* many as are still held: of all the executions counted as long as
\* cleanup_memory has shortened no list, of fewer afterwards.  With
\* track_command_timing off there are no averages.
C27_CountAndMeanOfHeld ==
    \A k \in UnresetSnapshots :
        LET s == created[k].snapshot
            c == created[k].calls
        IN  /\ ~config.track_command_timing =>
                   s.average_command_time_ms = EmptyDict
            /\ \A name \in DOMAIN s.commands_by_name :
                   /\ name \in DOMAIN c
                   /\ s.commands_by_name[name] = Len(c[name])
                   /\ config.track_command_timing =>
                          /\ name \in DOMAIN s.average_command_time_ms
                          /\ LET avg == s.average_command_time_ms[name]
                             IN  /\ avg.len \in 1 .. Len(c[name])
                                 /\ avg.sum = SeqSum(LastN(c[name], avg.len))
                                 /\ created[k].truncations = 0 =>
                                        avg.len = Len(c[name])

\* C27 witness: a snapshot built after cleanup_memory shortened the list of
\* "a": 102 executions are counted, the average is that of the last 101
C27_Witness ==
    \E k \in UnresetSnapshots :
        /\ created[k].truncations = 1
        /\ created[k].snapshot.commands_by_name["a"] = KeepLast + 2
        /\ created[k].snapshot.average_command_time_ms["a"].len = KeepLast + 1

\* the interactions under way or ended that have no matched command
Unmatched ==
    {i \in Interactions : frame[i].pc # "idle" /\ frame[i].command = None}

\* C25: for an interaction with no matched command, tracked_call writes no
\* CommandLog row and never calls log_command_execution, and no step of it
\* changes command_logs, the invocation counters or the duration lists,
\* whether the dispatch returned or raised.  If it raised, the error path
\* is the one of a matched command: the ErrorLog row it inserts (with
\* track_errors on, the insert not failing) has no command_name, and the
\* message that is sent carries the reference log_error returned.
C25_UnmatchedNotLogged ==
    /\ [](\A i \in Unmatched :
            /\ CommandRows(i) = {}
            /\ frame[i].log_command_calls = 0
            /\ frame[i].command_insert = "none"
            /\ frame[i].pc # "insert_command"
            /\ \A r \in ErrorRows(i) : r.command_name = None
            /\ (frame[i].log_error_calls = 1 /\ config.track_errors
                    /\ frame[i].error_insert = "ok")
               => /\ RowsFor(error_logs, i) = 1
                  /\ frame[i].pc = "send_message" =>
                         \E r \in ErrorRows(i) :
                             r.error_reference = frame[i].error_ref
            /\ frame[i].send = "ok" =>
                   \E m \in sent : m.interaction = i /\ WellFormed(m.error_ref)
            /\ (Ended(i) /\ ~frame[i].success) =>
                   /\ frame[i].log_error_calls = 1
                   /\ frame[i].send # "none")
    /\ [][\A i \in Unmatched :
              frame'[i] # frame[i] =>
                  /\ command_logs' = command_logs
                  /\ command_counts' = command_counts
                  /\ command_timings' = command_timings]_vars

\* C25 witness: a failed invocation with no matched command has ended: its
\* ErrorLog row is stored without command_name, its reference was sent, and no
\* CommandLog row was written for it
C25_Witness ==
    \E i \in Unmatched :
        /\ Ended(i)
        /\ ~frame[i].success
        /\ frame[i].error_insert = "ok"
        /\ frame[i].send = "ok"
        /\ \E r \in ErrorRows(i), m \in sent :
               /\ r.command_name = None
               /\ m.interaction = i
               /\ m.error_ref = r.error_reference
        /\ CommandRows(i) = {}

\* no call to the store made by log_error for interaction i failed for
\* want of the store
StoreAvailableTo(i) ==
    /\ \A k \in 1 .. Len(frame[i].probes) : frame[i].probes[k] # "fail"
    /\ frame[i].error_insert \in {"none", "ok"} \/ frame[i].duplicate_key

\* log_error has just returned its reference to tracked_call
Returned == {i \in Interactions : frame[i].pc = "send_message"}

\* C26 as stated: with track_errors on and the store available (no probe
\* fails, and an insert fails only on a duplicate key), for any
\* interleaving of the failing invocations, the reference
\* log_error returned to an invocation is the error_reference of a row
\* written for that invocation, with its user_id and command_name, and is
\* not a reference returned to another invocation.
C26_Original ==
    config.track_errors =>
        \A i \in Returned :
            (\A j \in Interactions : StoreAvailableTo(j)) =>
                /\ \E r \in BagToSet(error_logs) :
                       /\ r.error_reference = frame[i].error_ref
                       /\ r.user_id = UserId(i)
                       /\ r.command_name = frame[i].command
                /\ \A j \in Returned \ {i} :
                       frame[j].error_ref # frame[i].error_ref
                /\ \A m \in sent :
                       m.interaction # i => m.error_ref # frame[i].error_ref

\* the first attempt the server lets succeed, max_retries + 1 if none
FirstOk ==
    IF \E k \in 1 .. max_retries : setup.plan[k] = "ok"
    THEN CHOOSE k \in 1 .. max_retries :
             /\ setup.plan[k] = "ok"
             /\ \A j \in 1 .. k - 1 : setup.plan[j] # "ok"
    ELSE max_retries + 1

\* the waits before attempt n: 2 seconds, then 4
WaitsBefore(n) == SubSeq(<<2, 4>>, 1, n - 1)

InvokerPressed(button) ==
    {k \in 1 .. Len(purge.handled) :
        /\ purge.handled[k].user = Invoker
        /\ purge.handled[k].button = button}

\* C28: purge deletes messages, and calls channel.purge at all, only after
\* the task of a press of the confirm button by the invoker has run.  When
\* the view timed out with no value, when purge found the value set by
\* cancel, or when only other users pressed, nothing is deleted; the task
\* of a press runs the callback for the invoker only; and the task of a
\* press by another user leaves the value of the view, and the view, as
\* they were.
C28_DeleteOnlyOnConfirm ==
    /\ [](/\ purge.view.value # {} =>
                 InvokerPressed("confirm") \cup InvokerPressed("cancel") # {}
          /\ TRUE \in purge.view.value => InvokerPressed("confirm") # {}
          /\ (purge.pc = "purging" \/ purge.deleted # {}) =>
                 InvokerPressed("confirm") # {}
          /\ purge.response \in {"timed_out", "cancelled"} =>
                 purge.deleted = {}
          /\ (purge.pc = "done" /\ purge.response # "deleted") =>
                 purge.deleted = {}
          /\ \A k \in 1 .. Len(purge.handled) :
                 purge.handled[k].allowed = (purge.handled[k].user = Invoker))
    /\ [][(Len(purge'.handled) = Len(purge.handled) + 1
             /\ purge'.handled[Len(purge'.handled)].user # Invoker)
           => /\ purge'.view = purge.view
              /\ purge'.deleted = purge.deleted
              /\ purge'.pc = purge.pc]_vars

\* C28 witness: another user pressed confirm, then the invoker did, and the
\* messages were deleted
C28_Witness ==
    /\ purge.deleted # {}
    /\ purge.response = "deleted"
    /\ Len(purge.handled) = 2
    /\ purge.handled[1] =
           [user |-> Other, button |-> "confirm", allowed |-> FALSE]
    /\ purge.handled[2] =
           [user |-> Invoker, button |-> "confirm", allowed |-> TRUE]

\* C29 as stated: whatever button callbacks are delivered, for buttons the
\* view has disabled since included, current_page stays within
\* 0 .. len(embeds)-1, first/previous are disabled exactly when
\* current_page is 0, and next/last exactly when it is len(embeds)-1.
C29_Original ==
    /\ paginated.current_page \in 0 .. paginated.embeds - 1
    /\ paginated.disabled.first_page = (paginated.current_page = 0)
    /\ paginated.disabled.prev_page = (paginated.current_page = 0)
    /\ paginated.disabled.next_page =
           (paginated.current_page = paginated.embeds - 1)
    /\ paginated.disabled.last_page =
           (paginated.current_page = paginated.embeds - 1)

====
